---- MODULE Spec2Model ----
(***************************************************************************)
(* Model of the ClawToken / ClawNet Python SDK transport layer:            *)
(*   - clawtoken/http.py : _build_url, _handle_error, HttpClient verbs     *)
(*   - clawtoken/node.py : NodeApi.wait_for_sync / AsyncNodeApi            *)
(*   - clawtoken/client.py : the client as a context manager              *)
(*   - identity.py, contracts.py, clawnet/wallet.py, clawnet/markets.py :  *)
(*     resource wrappers that build a path and call one verb               *)
(* Text (URLs, query strings) is modelled as sequences of one-character    *)
(* strings so that percent-encoding and joining are computed, not assumed. *)
(* Python/JSON values are records [t, s, f]: t the type tag, s the scalar  *)
(* text, f the members of an object or array as <<name, value>> pairs.     *)
(***************************************************************************)
EXTENDS Integers, Sequences, FiniteSets, TLC

VARIABLES
    \* ---- transport core (HttpClient) ----
    base_url,   \* self.base_url, set once by __init__
    hpc,        \* position of the caller: "idle", "inflight", "done"
    req,        \* the request of the call in progress
    resp,       \* the response (or network failure) the call received
    outcome,    \* what the call returned or raised
    sent,       \* HTTP requests issued so far through the client
    calls,      \* calls of get/post/put/delete made so far
    client,     \* the client object: _headers given to the pool, closed or
                \* not, and where the caller stands in a with-block
    wcall,      \* the resource-wrapper call in progress (name, identifiers, kwargs)
    twin,       \* a second, non-blocking client (AsyncHttpClient / AsyncNodeApi)
                \* driven with the same arguments and the same responses
    \* ---- sync-wait helper (NodeApi.wait_for_sync) ----
    variant,    \* "sync" (NodeApi) or "async" (AsyncNodeApi)
    wpc,        \* "start", "fetching", "decide", "sleeping", "done"
    now,        \* time.monotonic()
    t0,         \* the clock when wait_for_sync was called
    timeout,    \* argument timeout
    interval,   \* argument interval
    deadline,   \* local variable deadline
    fetches,    \* get_status calls begun
    sleeps,     \* sleep calls begun
    status,     \* outcome of the last get_status
    wres,       \* what wait_for_sync returned or raised
    hist,       \* observations kept for the properties (durations, first fetch)
    \* ---- example agent (examples/python-agent) ----
    agent       \* the running script: which example, its position in main,
                \* the module global _nonce, the state-changing requests
                \* sent, the locals task, contract and bid_result/ms_result

httpVars == <<base_url, hpc, req, resp, outcome, sent, calls, client, wcall, twin>>
httpVarsButTwin == <<base_url, hpc, req, resp, outcome, sent, calls, client, wcall>>
syncVarsButAgent == <<variant, wpc, now, t0, timeout, interval, deadline, fetches,
                      sleeps, status, wres, hist>>
syncVars == <<variant, wpc, now, t0, timeout, interval, deadline, fetches,
              sleeps, status, wres, hist, agent>>
vars == <<base_url, hpc, req, resp, outcome, sent, calls, client, wcall, twin,
          variant, wpc, now, t0, timeout, interval, deadline, fetches, sleeps,
          status, wres, hist, agent>>

----------------------------------------------------------------------------
(* Bounds of the model *)

MaxCalls == 2
MaxTimeout == 3
MaxInterval == 2
MaxFetchDur == 2
MaxOversleep == 1
MaxFetches == 4

----------------------------------------------------------------------------
(* Python / JSON values *)

JVal(tag, scalar, members) == [t |-> tag, s |-> scalar, f |-> members]
PyNone == JVal("null", "", <<>>)
PyStr(x) == JVal("str", x, <<>>)
PyBool(x) == JVal("bool", x, <<>>)
PyNum(x) == JVal("num", x, <<>>)
PyDict(members) == JVal("obj", "", members)
PyList(members) == JVal("arr", "", members)
\* the marker for json.JSONDecodeError raised by resp.json()
JInvalid == JVal("invalid", "", <<>>)

IsDict(v) == v.t = "obj"

DictHas(d, k) == \E i \in 1..Len(d.f) : d.f[i][1] = k

\* dict.get(k, default)
DictGet(d, k, default) ==
    IF DictHas(d, k)
    THEN d.f[CHOOSE i \in 1..Len(d.f) : d.f[i][1] = k][2]
    ELSE default

\* Python truth value of a decoded JSON value
Truthy(v) ==
    CASE v.t = "null" -> FALSE
      [] v.t = "bool" -> v.s = "true"
      [] v.t = "num"  -> v.s # "0"
      [] v.t = "str"  -> v.s # ""
      [] OTHER        -> Len(v.f) > 0

\* resp.json() on the response bodies of the model: the decoded value, or
\* JInvalid where json.loads raises
JsonLoads(text) ==
    CASE text = "{\"ok\": true}" ->
            PyDict(<< <<"ok", PyBool("true")>> >>)
      [] text = "{\"contractId\": \"ct-1\", \"txHash\": \"tx-1\"}" ->
            PyDict(<< <<"contractId", PyStr("ct-1")>>, <<"txHash", PyStr("tx-1")>> >>)
      [] text = "{\"contractId\": \"ct/2\", \"txHash\": \"tx-2\"}" ->
            PyDict(<< <<"contractId", PyStr("ct/2")>>, <<"txHash", PyStr("tx-2")>> >>)
      [] text = "{\"total\": 0, \"items\": []}" ->
            PyDict(<< <<"total", PyNum("0")>>, <<"items", PyList(<<>>)>> >>)
      [] text = "{\"total\": 1, \"items\": [{\"id\": \"t-1\"}]}" ->
            PyDict(<< <<"total", PyNum("1")>>,
                      <<"items", PyList(<< <<"0", PyDict(<< <<"id", PyStr("t-1")>> >>)>> >>)>> >>)
      [] text = "{\"total\": 2, \"items\": [{\"id\": \"t 2\"}, {\"id\": \"t-1\"}]}" ->
            PyDict(<< <<"total", PyNum("2")>>,
                      <<"items", PyList(<< <<"0", PyDict(<< <<"id", PyStr("t 2")>> >>)>>,
                                           <<"1", PyDict(<< <<"id", PyStr("t-1")>> >>)>> >>)>> >>)
      [] text = "{\"network\": \"testnet\", \"blockHeight\": 100, \"synced\": true}" ->
            PyDict(<< <<"network", PyStr("testnet")>>, <<"blockHeight", PyNum("100")>>,
                      <<"synced", PyBool("true")>> >>)
      [] text = "{\"network\": \"testnet\", \"blockHeight\": 7, \"synced\": false}" ->
            PyDict(<< <<"network", PyStr("testnet")>>, <<"blockHeight", PyNum("7")>>,
                      <<"synced", PyBool("false")>> >>)
      [] text = "{\"did\": \"did:claw:z6MkExampleAgent\", \"publicKey\": \"z6Mk\"}" ->
            PyDict(<< <<"did", PyStr("did:claw:z6MkExampleAgent")>>,
                      <<"publicKey", PyStr("z6Mk")>> >>)
      [] text = "{\"available\": 100, \"locked\": 0}" ->
            PyDict(<< <<"available", PyNum("100")>>, <<"locked", PyNum("0")>> >>)
      [] text = "{\"available\": 100}" ->
            PyDict(<< <<"available", PyNum("100")>> >>)
      [] text = "{\"available\": \"100\", \"locked\": \"0\"}" ->
            PyDict(<< <<"available", PyStr("100")>>, <<"locked", PyStr("0")>> >>)
      [] text = "[1, 2]" ->
            PyList(<< <<"0", PyNum("1")>>, <<"1", PyNum("2")>> >>)
      [] text = "null" -> PyNone
      [] text = "\"hi\"" -> PyStr("hi")
      [] text = "5" -> PyNum("5")
      [] text = "{\"error\": {\"code\": \"NOT_FOUND\", \"message\": \"Resource not found\"}}" ->
            PyDict(<< <<"error", PyDict(<< <<"code", PyStr("NOT_FOUND")>>,
                                           <<"message", PyStr("Resource not found")>> >>)>> >>)
      [] text = "{\"error\": {\"message\": \"boom\"}}" ->
            PyDict(<< <<"error", PyDict(<< <<"message", PyStr("boom")>> >>)>> >>)
      [] text = "{\"error\": {\"code\": \"E_ONLY\"}}" ->
            PyDict(<< <<"error", PyDict(<< <<"code", PyStr("E_ONLY")>> >>)>> >>)
      [] text = "{\"error\": {}}" ->
            PyDict(<< <<"error", PyDict(<<>>)>> >>)
      [] text = "{\"error\": \"oops\"}" ->
            PyDict(<< <<"error", PyStr("oops")>> >>)
      [] text = "{\"error\": null}" ->
            PyDict(<< <<"error", PyNone>> >>)
      [] text = "{\"synced\": true, \"blockHeight\": 100}" ->
            PyDict(<< <<"synced", PyBool("true")>>, <<"blockHeight", PyNum("100")>> >>)
      [] text = "{\"synced\": true, \"blockHeight\": 101}" ->
            PyDict(<< <<"synced", PyBool("true")>>, <<"blockHeight", PyNum("101")>> >>)
      [] text = "{\"synced\": false, \"blockHeight\": 7}" ->
            PyDict(<< <<"synced", PyBool("false")>>, <<"blockHeight", PyNum("7")>> >>)
      [] text = "{\"blockHeight\": 8}" ->
            PyDict(<< <<"blockHeight", PyNum("8")>> >>)
      [] OTHER -> JInvalid

\* Response bodies the server may send
ErrorBodies ==
    { "{\"error\": {\"code\": \"NOT_FOUND\", \"message\": \"Resource not found\"}}",
      "{\"error\": {\"message\": \"boom\"}}",
      "{\"error\": {\"code\": \"E_ONLY\"}}",
      "{\"error\": {}}",
      "{\"error\": \"oops\"}",
      "{\"error\": null}" }

Bodies ==
    { "{\"ok\": true}",
      "{\"contractId\": \"ct-1\", \"txHash\": \"tx-1\"}",
      "[1, 2]", "null", "\"hi\"", "5",
      "", "Bad Gateway", "{\"error\": " } \cup ErrorBodies

Statuses == {100, 200, 201, 301, 404, 500}

\* a response: an HTTP response, or no response at all (net = TRUE: the
\* httpx call raised a transport error)
HttpResponse(st, text) == [net |-> FALSE, status |-> st, text |-> text]
NetworkFailure == [net |-> TRUE, status |-> 0, text |-> ""]
NoResponse == [net |-> FALSE, status |-> 0, text |-> ""]
Responses == {HttpResponse(st, b) : st \in Statuses, b \in Bodies} \cup {NetworkFailure}

----------------------------------------------------------------------------
(* Text as sequences of characters *)

\* str.rstrip("/")
RECURSIVE RStrip(_)
RStrip(s) ==
    IF Len(s) > 0 /\ s[Len(s)] = "/" THEN RStrip(SubSeq(s, 1, Len(s) - 1)) ELSE s

\* urllib.parse.quote_plus on one character
QuoteChar(c) ==
    CASE c = " " -> <<"+">>
      [] c = ":" -> <<"%", "3", "A">>
      [] c = "/" -> <<"%", "2", "F">>
      [] c = "?" -> <<"%", "3", "F">>
      [] c = "&" -> <<"%", "2", "6">>
      [] c = "=" -> <<"%", "3", "D">>
      [] c = "%" -> <<"%", "2", "5">>
      [] OTHER   -> <<c>>

\* urllib.parse.quote_plus
RECURSIVE QuotePlus(_)
QuotePlus(s) ==
    IF s = <<>> THEN <<>> ELSE QuoteChar(Head(s)) \o QuotePlus(Tail(s))

\* Quote gone wrong: quote(s) with its default safe="/", the slash left as it is
RECURSIVE QuoteKeepSlash(_)
QuoteKeepSlash(s) ==
    IF s = <<>> THEN <<>>
    ELSE (IF Head(s) = "/" THEN <<"/">>
          ELSE IF Head(s) = " " THEN <<"%", "2", "0">>
          ELSE QuoteChar(Head(s))) \o QuoteKeepSlash(Tail(s))

\* urllib.parse.quote(s, safe=''): as quote_plus, except that a space
\* becomes %20; only letters, digits and "_.-~" are left as they are
RECURSIVE Quote(_)
Quote(s) ==
    IF s = <<>> THEN <<>>
    ELSE (IF Head(s) = " " THEN <<"%", "2", "0">> ELSE QuoteChar(Head(s))) \o Quote(Tail(s))

\* sep.join(parts)
RECURSIVE Join(_, _)
Join(parts, sep) ==
    IF parts = <<>> THEN <<>>
    ELSE IF Len(parts) = 1 THEN parts[1]
    ELSE parts[1] \o sep \o Join(Tail(parts), sep)

\* Query parameter values: None, a str, an int, or a list of str.
\* items holds the text(s) of the value.
PNone == [kind |-> "none", items |-> <<>>]
PStr(s) == [kind |-> "str", items |-> <<s>>]
PInt(s) == [kind |-> "int", items |-> <<s>>]
PSeq(ss) == [kind |-> "seq", items |-> ss]

\* A params argument: None, or a dict given as its items in insertion order
NoParams == [none |-> TRUE, items |-> <<>>]
ParamDict(items) == [none |-> FALSE, items |-> items]

\* the texts urlencode(..., doseq=True) encodes for a value: the elements of
\* a sequence, str(v) for anything else (str(None) is "None")
ValueTexts(v) ==
    IF v.kind = "none" THEN << <<"N", "o", "n", "e">> >> ELSE v.items

\* the "k=v" strings urlencode(..., doseq=True) builds for one item
RECURSIVE PairsOf(_, _)
PairsOf(k, vs) ==
    IF vs = <<>> THEN <<>>
    ELSE << QuotePlus(k) \o <<"=">> \o QuotePlus(Head(vs)) >> \o PairsOf(k, Tail(vs))

RECURSIVE EncodedPairs(_)
EncodedPairs(items) ==
    IF items = <<>> THEN <<>>
    ELSE PairsOf(Head(items)[1], ValueTexts(Head(items)[2])) \o EncodedPairs(Tail(items))

\* urllib.parse.urlencode(query, doseq=True)
UrlEncode(items) == Join(EncodedPairs(items), <<"&">>)

IsNotNone(item) == item[2].kind # "none"

----------------------------------------------------------------------------
(* clawtoken/http.py *)

\* BuildUrl gone wrong: the None values are not filtered out before urlencode
BuildUrlNoFilter(base, path, params) ==
    LET url == RStrip(base) \o path IN
    IF ~params.none /\ Len(params.items) > 0
    THEN url \o <<"?">> \o UrlEncode(params.items)
    ELSE url

\* BuildUrl gone wrong: a "/" put between the base and the path
BuildUrlJoinSlash(base, path, params) ==
    LET url == RStrip(base) \o <<"/">> \o path IN
    IF ~params.none /\ Len(params.items) > 0
    THEN LET filtered == SelectSeq(params.items, IsNotNone) IN
         IF Len(filtered) > 0
         THEN url \o <<"?">> \o UrlEncode(filtered)
         ELSE url
    ELSE url

\* _build_url(base, path, params)
BuildUrl(base, path, params) ==
    LET url == RStrip(base) \o path IN
    IF ~params.none /\ Len(params.items) > 0
    THEN LET filtered == SelectSeq(params.items, IsNotNone) IN
         IF Len(filtered) > 0
         THEN url \o <<"?">> \o UrlEncode(filtered)
         ELSE url
    ELSE url

\* httpx.Response.is_success
IsSuccess(st) == 200 <= st /\ st <= 299

\* What a call ends with. kind: "none" (not ended), "return", "node_error"
\* (ClawTokenError), "decode_error" (json.JSONDecodeError), "network_error"
\* (httpx.TransportError)
NoOutcome ==
    [kind |-> "none", value |-> PyNone, status |-> 0, message |-> PyNone, code |-> PyNone]
Returned(v) ==
    [kind |-> "return", value |-> v, status |-> 0, message |-> PyNone, code |-> PyNone]
\* ClawTokenError(msg, status=..., code=...)
ClawTokenError(msg, st, cd) ==
    [kind |-> "node_error", value |-> PyNone, status |-> st, message |-> msg, code |-> cd]
DecodeError ==
    [kind |-> "decode_error", value |-> PyNone, status |-> 0, message |-> PyNone, code |-> PyNone]
NetworkError ==
    [kind |-> "network_error", value |-> PyNone, status |-> 0, message |-> PyNone, code |-> PyNone]

\* HandleError gone wrong: the status is not handed to the exception (its default 0 stays)
HandleErrorNoStatus(r) ==
    IF IsSuccess(r.status) THEN NoOutcome
    ELSE LET body == JsonLoads(r.text)
             text == PyStr(r.text)
         IN  IF body = JInvalid \/ ~IsDict(body)
             THEN ClawTokenError(text, 0, PyNone)
             ELSE LET err == DictGet(body, "error", PyDict(<<>>)) IN
                  IF ~IsDict(err)
                  THEN ClawTokenError(text, 0, PyNone)
                  ELSE ClawTokenError(DictGet(err, "message", text), 0,
                                      DictGet(err, "code", PyNone))

\* HandleError gone wrong: "if resp.is_error" (status 400 and above) in place
\* of "if not resp.is_success", so that 1xx and 3xx responses pass
HandleErrorOnlyErrors(r) ==
    IF r.status < 400 THEN NoOutcome
    ELSE LET body == JsonLoads(r.text)
             text == PyStr(r.text)
         IN  IF body = JInvalid \/ ~IsDict(body)
             THEN ClawTokenError(text, r.status, PyNone)
             ELSE LET err == DictGet(body, "error", PyDict(<<>>)) IN
                  IF ~IsDict(err)
                  THEN ClawTokenError(text, r.status, PyNone)
                  ELSE ClawTokenError(DictGet(err, "message", text), r.status,
                                      DictGet(err, "code", PyNone))

\* _handle_error(resp): NoOutcome when it returns, the ClawTokenError when it
\* raises. An exception inside the try block (resp.json() failing, .get on a
\* value that is not a dict) takes the except branch.
HandleError(r) ==
    IF IsSuccess(r.status) THEN NoOutcome
    ELSE LET body == JsonLoads(r.text)
             text == PyStr(r.text)
         IN  IF body = JInvalid
             THEN ClawTokenError(text, r.status, PyNone)
             ELSE IF ~IsDict(body)
             THEN ClawTokenError(text, r.status, PyNone)
             ELSE LET err == DictGet(body, "error", PyDict(<<>>)) IN
                  IF ~IsDict(err)
                  THEN ClawTokenError(text, r.status, PyNone)
                  ELSE ClawTokenError(DictGet(err, "message", text), r.status,
                                      DictGet(err, "code", PyNone))

\* HttpOutcome gone wrong: "return resp.json() or {}", a falsy decoded value replaced by {}
HttpOutcomeDefaulted(r) ==
    IF r.net THEN NetworkError
    ELSE LET e == HandleError(r) IN
         IF e.kind # "none" THEN e
         ELSE LET v == JsonLoads(r.text) IN
              IF v = JInvalid THEN DecodeError
              ELSE IF Truthy(v) THEN Returned(v) ELSE Returned(PyDict(<<>>))

\* HttpOutcome gone wrong: a transport failure caught and raised again as the node error
HttpOutcomeWrapped(r) ==
    IF r.net THEN ClawTokenError(PyStr("network failure"), 0, PyNone)
    ELSE LET e == HandleError(r) IN
         IF e.kind # "none" THEN e
         ELSE LET v == JsonLoads(r.text) IN
              IF v = JInvalid THEN DecodeError ELSE Returned(v)

\* HttpOutcome gone wrong: a body that does not decode gives None instead of raising
HttpOutcomeNullOnInvalid(r) ==
    IF r.net THEN NetworkError
    ELSE LET e == HandleError(r) IN
         IF e.kind # "none" THEN e
         ELSE LET v == JsonLoads(r.text) IN
              IF v = JInvalid THEN Returned(PyNone) ELSE Returned(v)

\* the rest of get/post/put/delete once self._client.<verb>(url) has ended:
\* _handle_error(resp); return resp.json()
HttpOutcome(r) ==
    IF r.net THEN NetworkError
    ELSE LET e == HandleError(r) IN
         IF e.kind # "none" THEN e
         ELSE LET v == JsonLoads(r.text) IN
              IF v = JInvalid THEN DecodeError ELSE Returned(v)

\* HttpClient.__init__: the base URL kept by the client
NewBaseUrl(base) == RStrip(base)

\* TypeError: a method called with a keyword argument it does not take
TypeError ==
    [kind |-> "type_error", value |-> PyNone, status |-> 0, message |-> PyNone, code |-> PyNone]

\* an optional argument: None (api_key=None, headers=None), or a value
NoApiKey == [none |-> TRUE, v |-> ""]
NoExtraHeaders == [none |-> TRUE, v |-> <<>>]
PyGiven(x) == [none |-> FALSE, v |-> x]

\* A dict of header names and values: <<name, value>> pairs in insertion order
DictHasKey(d, k) == \E i \in 1..Len(d) : d[i][1] = k
DictValue(d, k) == d[CHOOSE i \in 1..Len(d) : d[i][1] = k][2]
\* d[k] = v: the value of an existing key replaced in place, a new key appended
DictSet(d, k, v) ==
    IF DictHasKey(d, k)
    THEN [i \in 1..Len(d) |-> IF d[i][1] = k THEN <<k, v>> ELSE d[i]]
    ELSE Append(d, <<k, v>>)
\* d.update(u)
RECURSIVE DictUpdate(_, _)
DictUpdate(d, u) ==
    IF u = <<>> THEN d
    ELSE DictUpdate(DictSet(d, Head(u)[1], Head(u)[2]), Tail(u))

\* _headers = {"Content-Type": "application/json"}
DefaultHeaders == << <<"Content-Type", "application/json">> >>

\* HttpClient.__init__, the _headers dict handed to httpx.Client(headers=...):
\* the default, then Authorization when api_key is truthy, then
\* _headers.update(headers) when headers is truthy
NewHeaders(api_key, headers) ==
    LET h0 == DefaultHeaders
        h1 == IF ~api_key.none /\ api_key.v # ""
              THEN DictSet(h0, "Authorization", "Bearer " \o api_key.v)
              ELSE h0
    IN  IF ~headers.none /\ headers.v # <<>>
        THEN DictUpdate(h1, headers.v)
        ELSE h1

\* the client object after __init__(base_url, api_key=..., headers=...)
NewClient(api_key, headers) ==
    [api_key |-> api_key, extra |-> headers, headers |-> NewHeaders(api_key, headers),
     cls |-> "HttpClient", closed |-> FALSE, scope |-> "none", exitBy |-> "",
     propagated |-> NoOutcome]

----------------------------------------------------------------------------
(* Inputs of the transport model *)

BaseInputs == { <<"h">>, <<"h", "/">>, <<"h", "/", "/">> }
Paths == { <<"/", "p">>, <<"/", "w", "/", "b">> }
Keys == { <<"a">>, <<"b">> }
ParamVals ==
    { PNone, PStr(<<"d", ":", "x">>), PStr(<<"&", "b", "=", "?">>), PStr(<<>>), PInt(<<"5">>),
      PSeq(<<>>), PSeq(<< <<"x">>, <<"y", " ">> >>) }
ParamMaps ==
    { NoParams, ParamDict(<<>>) }
    \cup { ParamDict(<< <<k, v>> >>) : k \in Keys, v \in ParamVals }
    \cup { ParamDict(<< <<q[1], q[3]>>, <<q[2], q[4]>> >>) :
             q \in {x \in Keys \X Keys \X ParamVals \X ParamVals : x[1] # x[2]} }
JsonBodies ==
    { PyNone, PyDict(<<>>), PyDict(<< <<"title", PyStr("Job")>> >>) }

NoRequest ==
    [method |-> "", url |-> <<>>, path |-> <<>>, params |-> NoParams, body |-> PyNone,
     headers |-> <<>>]

NoWrapperCall == [name |-> "", method |-> "", ids |-> <<>>, kwargs |-> PyNone]
\* the second client when it is not in use
NoTwin ==
    [pc |-> "off", base_url |-> <<>>, headers |-> <<>>, req |-> NoRequest,
     resp |-> NoResponse, outcome |-> NoOutcome, sent |-> 0, calls |-> 0,
     wpc |-> "start", now |-> 0, deadline |-> 0, fetches |-> 0, sleeps |-> 0,
     done |-> 0, status |-> NoOutcome, wres |-> NoOutcome, tasks |-> <<>>,
     closed |-> FALSE, main |-> "running"]

----------------------------------------------------------------------------
(* Transport core: one blocking client, calls made one after the other *)

HttpConstructed ==
    /\ \E b \in BaseInputs : base_url = NewBaseUrl(b)
    /\ hpc = "idle"
    /\ req = NoRequest
    /\ resp = NoResponse
    /\ outcome = NoOutcome
    /\ sent = 0
    /\ calls = 0
    /\ client = NewClient(NoApiKey, NoExtraHeaders)
    /\ wcall = NoWrapperCall
    /\ twin = NoTwin

\* HttpClient.get(path, params): the URL is built and self._client.get(url)
\* leaves for the server
Get(path, params) ==
    /\ hpc = "idle"
    /\ ~client.closed
    /\ calls < MaxCalls
    /\ calls' = calls + 1
    /\ req' = [method |-> "GET", url |-> BuildUrl(base_url, path, params),
               path |-> path, params |-> params, body |-> PyNone,
               headers |-> client.headers]
    /\ sent' = sent + 1
    /\ hpc' = "inflight"
    /\ resp' = NoResponse
    /\ outcome' = NoOutcome
    /\ UNCHANGED <<base_url, client, wcall, twin>>
    /\ UNCHANGED syncVars

\* HttpClient.post(path, body): the URL is built and self._client.post(url, json=body)
\* leaves for the server
Post(path, body) ==
    /\ hpc = "idle"
    /\ ~client.closed
    /\ calls < MaxCalls
    /\ calls' = calls + 1
    /\ req' = [method |-> "POST", url |-> BuildUrl(base_url, path, NoParams),
               path |-> path, params |-> NoParams, body |-> body,
               headers |-> client.headers]
    /\ sent' = sent + 1
    /\ hpc' = "inflight"
    /\ resp' = NoResponse
    /\ outcome' = NoOutcome
    /\ UNCHANGED <<base_url, client, wcall, twin>>
    /\ UNCHANGED syncVars

\* HttpClient.put(path, body): the URL is built and self._client.put(url, json=body)
\* leaves for the server
Put(path, body) ==
    /\ hpc = "idle"
    /\ ~client.closed
    /\ calls < MaxCalls
    /\ calls' = calls + 1
    /\ req' = [method |-> "PUT", url |-> BuildUrl(base_url, path, NoParams),
               path |-> path, params |-> NoParams, body |-> body,
               headers |-> client.headers]
    /\ sent' = sent + 1
    /\ hpc' = "inflight"
    /\ resp' = NoResponse
    /\ outcome' = NoOutcome
    /\ UNCHANGED <<base_url, client, wcall, twin>>
    /\ UNCHANGED syncVars

\* HttpClient.delete(path, params): the URL is built and self._client.delete(url)
\* leaves for the server
Delete(path, params) ==
    /\ hpc = "idle"
    /\ ~client.closed
    /\ calls < MaxCalls
    /\ calls' = calls + 1
    /\ req' = [method |-> "DELETE", url |-> BuildUrl(base_url, path, params),
               path |-> path, params |-> params, body |-> PyNone,
               headers |-> client.headers]
    /\ sent' = sent + 1
    /\ hpc' = "inflight"
    /\ resp' = NoResponse
    /\ outcome' = NoOutcome
    /\ UNCHANGED <<base_url, client, wcall, twin>>
    /\ UNCHANGED syncVars

\* Complete gone wrong: a call that failed at the network level is sent once more
CompleteRetry(r) ==
    /\ hpc = "inflight"
    /\ IF r.net /\ sent = calls
       THEN /\ sent' = sent + 1
            /\ UNCHANGED <<hpc, resp, outcome>>
       ELSE /\ resp' = r
            /\ outcome' = HttpOutcome(r)
            /\ hpc' = "done"
            /\ sent' = sent
    /\ UNCHANGED <<base_url, req, calls, client, wcall, twin>>
    /\ UNCHANGED syncVars

\* the httpx call ends with response r (or fails), and the verb finishes:
\* _handle_error(resp); return resp.json()
Complete(r) ==
    /\ hpc = "inflight"
    /\ resp' = r
    /\ outcome' = HttpOutcome(r)
    /\ hpc' = "done"
    /\ UNCHANGED <<base_url, req, sent, calls, client, wcall, twin>>
    /\ UNCHANGED syncVars

\* the caller takes the result (the locals url and resp of the verb are
\* gone); the client is free for the next call
Return ==
    /\ hpc = "done"
    /\ hpc' = "idle"
    /\ req' = NoRequest
    /\ resp' = NoResponse
    /\ outcome' = NoOutcome
    /\ wcall' = NoWrapperCall
    /\ UNCHANGED <<base_url, sent, calls, client, twin>>
    /\ UNCHANGED syncVars

----------------------------------------------------------------------------
(* Resource wrappers (identity.py, wallet.py, markets.py, contracts.py): each
   builds a path, every identifier passed through quote(x, safe=''), and
   hands it to one verb of the transport core. A path is written as its
   delimiters and words: <<"/", "api", "/", "identity", "/">> is
   "/api/identity/". *)

\* IdentityApi.get(did)
IdentityGet(did) ==
    /\ hpc = "idle"
    /\ ~client.closed
    /\ calls < MaxCalls
    /\ calls' = calls + 1
    /\ wcall' = [name |-> "identity.get", method |-> "GET", ids |-> <<did>>, kwargs |-> PyNone]
    /\ LET path == <<"/", "api", "/", "identity", "/">> \o Quote(did) IN
       req' = [method |-> "GET", url |-> BuildUrl(base_url, path, NoParams),
               path |-> path, params |-> NoParams, body |-> PyNone,
               headers |-> client.headers]
    /\ sent' = sent + 1
    /\ hpc' = "inflight"
    /\ resp' = NoResponse
    /\ outcome' = NoOutcome
    /\ UNCHANGED <<base_url, client, twin>>
    /\ UNCHANGED syncVars

\* WalletApi.release_escrow(escrow_id, **kwargs)
ReleaseEscrow(escrow_id, kwargs) ==
    /\ hpc = "idle"
    /\ ~client.closed
    /\ calls < MaxCalls
    /\ calls' = calls + 1
    /\ wcall' = [name |-> "wallet.release_escrow", method |-> "POST", ids |-> <<escrow_id>>,
                 kwargs |-> kwargs]
    /\ LET path == <<"/", "api", "/", "wallet", "/", "escrow", "/">> \o Quote(escrow_id)
                   \o <<"/", "release">> IN
       req' = [method |-> "POST", url |-> BuildUrl(base_url, path, NoParams),
               path |-> path, params |-> NoParams, body |-> kwargs,
               headers |-> client.headers]
    /\ sent' = sent + 1
    /\ hpc' = "inflight"
    /\ resp' = NoResponse
    /\ outcome' = NoOutcome
    /\ UNCHANGED <<base_url, client, twin>>
    /\ UNCHANGED syncVars

\* InfoMarketApi.publish(**kwargs)
InfoPublish(kwargs) ==
    /\ hpc = "idle"
    /\ ~client.closed
    /\ calls < MaxCalls
    /\ calls' = calls + 1
    /\ wcall' = [name |-> "markets.info.publish", method |-> "POST", ids |-> <<>>,
                 kwargs |-> kwargs]
    /\ LET path == <<"/", "api", "/", "markets", "/", "info">> IN
       req' = [method |-> "POST", url |-> BuildUrl(base_url, path, NoParams),
               path |-> path, params |-> NoParams, body |-> kwargs,
               headers |-> client.headers]
    /\ sent' = sent + 1
    /\ hpc' = "inflight"
    /\ resp' = NoResponse
    /\ outcome' = NoOutcome
    /\ UNCHANGED <<base_url, client, twin>>
    /\ UNCHANGED syncVars

\* InfoMarketApi.remove(listing_id, **kwargs): the kwargs are accepted and
\* not passed on, delete(path) takes no body
\* AsyncInfoMarketApi.remove(listing_id) takes no keyword argument: called
\* with any, Python raises TypeError before the body runs and nothing is sent
InfoRemove(listing_id, kwargs) ==
    /\ hpc = "idle"
    /\ ~client.closed
    /\ calls < MaxCalls
    /\ wcall' = [name |-> "markets.info.remove", method |-> "DELETE", ids |-> <<listing_id>>,
                 kwargs |-> kwargs]
    /\ resp' = NoResponse
    /\ IF client.cls = "AsyncClawTokenClient" /\ Len(kwargs.f) > 0
       THEN /\ req' = NoRequest
            /\ outcome' = TypeError
            /\ hpc' = "done"
            /\ UNCHANGED <<sent, calls>>
       ELSE /\ LET path == <<"/", "api", "/", "markets", "/", "info", "/">> \o Quote(listing_id) IN
               req' = [method |-> "DELETE", url |-> BuildUrl(base_url, path, NoParams),
                       path |-> path, params |-> NoParams, body |-> PyNone,
                       headers |-> client.headers]
            /\ outcome' = NoOutcome
            /\ hpc' = "inflight"
            /\ sent' = sent + 1
            /\ calls' = calls + 1
    /\ UNCHANGED <<base_url, client, twin>>
    /\ UNCHANGED syncVars

\* TaskMarketApi.remove(task_id, **kwargs); AsyncTaskMarketApi.remove(task_id)
TaskRemove(task_id, kwargs) ==
    /\ hpc = "idle"
    /\ ~client.closed
    /\ calls < MaxCalls
    /\ wcall' = [name |-> "markets.tasks.remove", method |-> "DELETE", ids |-> <<task_id>>,
                 kwargs |-> kwargs]
    /\ resp' = NoResponse
    /\ IF client.cls = "AsyncClawTokenClient" /\ Len(kwargs.f) > 0
       THEN /\ req' = NoRequest
            /\ outcome' = TypeError
            /\ hpc' = "done"
            /\ UNCHANGED <<sent, calls>>
       ELSE /\ LET path == <<"/", "api", "/", "markets", "/", "tasks", "/">> \o Quote(task_id) IN
               req' = [method |-> "DELETE", url |-> BuildUrl(base_url, path, NoParams),
                       path |-> path, params |-> NoParams, body |-> PyNone,
                       headers |-> client.headers]
            /\ outcome' = NoOutcome
            /\ hpc' = "inflight"
            /\ sent' = sent + 1
            /\ calls' = calls + 1
    /\ UNCHANGED <<base_url, client, twin>>
    /\ UNCHANGED syncVars

\* CapabilityMarketApi.remove(listing_id, **kwargs);
\* AsyncCapabilityMarketApi.remove(listing_id)
CapabilityRemove(listing_id, kwargs) ==
    /\ hpc = "idle"
    /\ ~client.closed
    /\ calls < MaxCalls
    /\ wcall' = [name |-> "markets.capabilities.remove", method |-> "DELETE",
                 ids |-> <<listing_id>>, kwargs |-> kwargs]
    /\ resp' = NoResponse
    /\ IF client.cls = "AsyncClawTokenClient" /\ Len(kwargs.f) > 0
       THEN /\ req' = NoRequest
            /\ outcome' = TypeError
            /\ hpc' = "done"
            /\ UNCHANGED <<sent, calls>>
       ELSE /\ LET path == <<"/", "api", "/", "markets", "/", "capabilities", "/">>
                   \o Quote(listing_id) IN
               req' = [method |-> "DELETE", url |-> BuildUrl(base_url, path, NoParams),
                       path |-> path, params |-> NoParams, body |-> PyNone,
                       headers |-> client.headers]
            /\ outcome' = NoOutcome
            /\ hpc' = "inflight"
            /\ sent' = sent + 1
            /\ calls' = calls + 1
    /\ UNCHANGED <<base_url, client, twin>>
    /\ UNCHANGED syncVars

\* SubmitMilestone gone wrong: the wrapper adds a field of its own to the body
SubmitMilestoneStamped(contract_id, milestone_id, kwargs) ==
    /\ hpc = "idle"
    /\ ~client.closed
    /\ calls < MaxCalls
    /\ calls' = calls + 1
    /\ wcall' = [name |-> "contracts.submit_milestone", method |-> "POST",
                 ids |-> <<contract_id, milestone_id>>, kwargs |-> kwargs]
    /\ LET path == <<"/", "api", "/", "contracts", "/">> \o Quote(contract_id)
                   \o <<"/", "milestones", "/">> \o Quote(milestone_id)
                   \o <<"/", "submit">> IN
       req' = [method |-> "POST", url |-> BuildUrl(base_url, path, NoParams),
               path |-> path, params |-> NoParams, body |-> PyDict(kwargs.f \o << <<"milestoneId", PyStr("ms")>> >>),
               headers |-> client.headers]
    /\ sent' = sent + 1
    /\ hpc' = "inflight"
    /\ resp' = NoResponse
    /\ outcome' = NoOutcome
    /\ UNCHANGED <<base_url, client, twin>>
    /\ UNCHANGED syncVars

\* ContractsApi.submit_milestone(contract_id, milestone_id, **kwargs)
SubmitMilestone(contract_id, milestone_id, kwargs) ==
    /\ hpc = "idle"
    /\ ~client.closed
    /\ calls < MaxCalls
    /\ calls' = calls + 1
    /\ wcall' = [name |-> "contracts.submit_milestone", method |-> "POST",
                 ids |-> <<contract_id, milestone_id>>, kwargs |-> kwargs]
    /\ LET path == <<"/", "api", "/", "contracts", "/">> \o Quote(contract_id)
                   \o <<"/", "milestones", "/">> \o Quote(milestone_id)
                   \o <<"/", "submit">> IN
       req' = [method |-> "POST", url |-> BuildUrl(base_url, path, NoParams),
               path |-> path, params |-> NoParams, body |-> kwargs,
               headers |-> client.headers]
    /\ sent' = sent + 1
    /\ hpc' = "inflight"
    /\ resp' = NoResponse
    /\ outcome' = NoOutcome
    /\ UNCHANGED <<base_url, client, twin>>
    /\ UNCHANGED syncVars

----------------------------------------------------------------------------
(* Closing the client, and the client as a context manager *)

\* HttpClient.close(): self._client.close()
HttpClientClose(c) == [c EXCEPT !.closed = TRUE]

\* AsyncClawTokenClient.aclose(): await self.http.aclose()
ClientAclose(c) == HttpClientClose(c)

\* ExitResult gone wrong: the pool closed only when the block ended without an exception
ExitResultLeak(c, exc) ==
    [client |-> IF exc.kind = "none"
                THEN (IF c.cls = "HttpClient" THEN HttpClientClose(c) ELSE ClientAclose(c))
                ELSE c,
     suppress |-> FALSE]

\* __exit__(*args) / __aexit__(*args): close, then return None. client is the
\* object afterwards, suppress whether the return value is true (a true value
\* would swallow the exception of the block)
ExitResult(c, exc) ==
    [client |-> IF c.cls = "HttpClient" THEN HttpClientClose(c) ELSE ClientAclose(c),
     suppress |-> FALSE]

\* "with client:" / "async with client:" is entered: __enter__ returns self
Enter ==
    /\ client.scope = "none"
    /\ hpc = "idle"
    /\ client' = [client EXCEPT !.scope = "inside"]
    /\ UNCHANGED <<base_url, hpc, req, resp, outcome, sent, calls, wcall, twin>>
    /\ UNCHANGED syncVars

\* the with-block is left: how = "normal" (its end is reached), "return" (a
\* return statement inside it) or "exception" (the call in progress raised
\* and the block does not catch it)
Exit(how) ==
    /\ client.scope = "inside"
    /\ \/ how \in {"normal", "return"} /\ hpc = "idle"
       \/ how = "exception" /\ hpc = "done" /\ outcome.kind # "return"
    /\ LET exc == IF how = "exception" THEN outcome ELSE NoOutcome
           res == ExitResult(client, exc)
       IN  client' = [res.client EXCEPT !.scope = "exited",
                                        !.exitBy = how,
                                        !.propagated = IF res.suppress THEN NoOutcome ELSE exc]
    /\ hpc' = "idle"
    /\ req' = NoRequest
    /\ resp' = NoResponse
    /\ outcome' = NoOutcome
    /\ wcall' = NoWrapperCall
    /\ UNCHANGED <<base_url, sent, calls, twin>>
    /\ UNCHANGED syncVars

\* client.close() / await client.aclose() called by hand
Close ==
    /\ hpc = "idle"
    /\ client' = IF client.cls = "HttpClient" THEN HttpClientClose(client) ELSE ClientAclose(client)
    /\ UNCHANGED <<base_url, hpc, req, resp, outcome, sent, calls, wcall, twin>>
    /\ UNCHANGED syncVars

\* Inputs of the client model
ApiKeys == { NoApiKey, PyGiven(""), PyGiven("secret") }
ExtraHeaders ==
    { NoExtraHeaders, PyGiven(<<>>),
      PyGiven(<< <<"X-Trace", "1">> >>),
      PyGiven(<< <<"Content-Type", "text/plain">>, <<"X-Trace", "1">> >>),
      PyGiven(<< <<"content-type", "text/plain">> >>),
      PyGiven(<< <<"Authorization", "Basic abc">> >>) }
ClientClasses == { "HttpClient", "AsyncClawTokenClient" }
Identifiers ==
    { <<"d", ":", "x">>, <<"a", "/", "b">>, <<"q", "?", "k", "&", "v">>, <<"%", "2", "F">>,
      <<"i", " ", "1">> }
Envelope ==
    PyDict(<< <<"did", PyStr("did:claw:a")>>, <<"passphrase", PyStr("pw")>>,
              <<"nonce", PyNum("1")>> >>)
Kwargs ==
    { PyDict(<<>>), Envelope,
      PyDict(<< <<"did", PyStr("did:claw:a")>>, <<"passphrase", PyStr("pw")>>,
                <<"nonce", PyNum("2")>>, <<"reason", PyStr("late")>> >>) }
ClientPaths == { <<"/", "p">> }
ClientParams == { NoParams, ParamDict(<< <<<<"a">>, PStr(<<"d", ":", "x">>)>> >>) }
ClientBodies == { PyDict(<< <<"title", PyStr("Job")>> >>) }
ClientResponses ==
    { HttpResponse(200, "{\"ok\": true}"), HttpResponse(200, ""),
      HttpResponse(404, "{\"error\": {\"code\": \"NOT_FOUND\", \"message\": \"Resource not found\"}}"),
      NetworkFailure }

\* a client of either class, constructed with any api_key and headers
ClientConstructed ==
    /\ base_url = NewBaseUrl(<<"h", "/">>)
    /\ hpc = "idle"
    /\ req = NoRequest
    /\ resp = NoResponse
    /\ outcome = NoOutcome
    /\ sent = 0
    /\ calls = 0
    /\ \E k \in ApiKeys, h \in ExtraHeaders, c \in ClientClasses :
          client = [NewClient(k, h) EXCEPT !.cls = c]
    /\ wcall = NoWrapperCall
    /\ twin = NoTwin

HttpIdle ==
    /\ base_url = NewBaseUrl(<<"h">>)
    /\ hpc = "idle"
    /\ req = NoRequest
    /\ resp = NoResponse
    /\ outcome = NoOutcome
    /\ sent = 0
    /\ calls = 0
    /\ client = NewClient(NoApiKey, NoExtraHeaders)
    /\ wcall = NoWrapperCall
    /\ twin = NoTwin

----------------------------------------------------------------------------
(* clawtoken/node.py : wait_for_sync *)

\* TimeoutError gone wrong: the expiry raised as the node error
TimeoutAsNodeError(to) ==
    [kind |-> "node_error", value |-> PyNone, status |-> 0,
     message |-> PyStr("Node did not sync within " \o ToString(to) \o "s"),
     code |-> PyNone]

\* raise TimeoutError(f"Node did not sync within {timeout}s")
TimeoutError(to) ==
    [kind |-> "timeout", value |-> PyNone, status |-> 0,
     message |-> PyStr("Node did not sync within " \o ToString(to) \o "s"),
     code |-> PyNone]
\* status.get on a decoded value that is not a dict
AttributeError ==
    [kind |-> "attribute_error", value |-> PyNone, status |-> 0,
     message |-> PyNone, code |-> PyNone]

\* Deadline gone wrong: the deadline taken as the timeout itself, the clock not added
DeadlineAbsolute(clock, to) == to

\* deadline = time.monotonic() + timeout
Deadline(clock, to) == clock + to

\* LoopStep gone wrong: the deadline checked before the synced flag
LoopStepDeadlineFirst(st, clock, dl) ==
    IF st.kind # "return" THEN "propagate"
    ELSE IF ~IsDict(st.value) THEN "attribute_error"
    ELSE IF clock >= dl THEN "timeout"
    ELSE IF Truthy(DictGet(st.value, "synced", PyNone)) THEN "return"
    ELSE "sleep"

\* LoopStep gone wrong: the deadline compared with > instead of >=
LoopStepStrict(st, clock, dl) ==
    IF st.kind # "return" THEN "propagate"
    ELSE IF ~IsDict(st.value) THEN "attribute_error"
    ELSE IF Truthy(DictGet(st.value, "synced", PyNone)) THEN "return"
    ELSE IF clock > dl THEN "timeout"
    ELSE "sleep"

\* LoopStep gone wrong: a failed fetch caught and counted as "not synced yet"
LoopStepSwallow(st, clock, dl) ==
    IF st.kind = "return" /\ ~IsDict(st.value) THEN "attribute_error"
    ELSE IF st.kind = "return" /\ Truthy(DictGet(st.value, "synced", PyNone)) THEN "return"
    ELSE IF clock >= dl THEN "timeout"
    ELSE "sleep"

\* LoopStep gone wrong: once the clock is past the deadline the timeout is
\* raised whatever the status says
LoopStepTimeoutWins(st, clock, dl) ==
    IF st.kind # "return" THEN "propagate"
    ELSE IF ~IsDict(st.value) THEN "attribute_error"
    ELSE IF clock > dl THEN "timeout"
    ELSE IF Truthy(DictGet(st.value, "synced", PyNone)) THEN "return"
    ELSE IF clock >= dl THEN "timeout"
    ELSE "sleep"

\* LoopStep gone wrong: the deadline never tested, a node that is not synced
\* is polled for ever
LoopStepNoDeadline(st, clock, dl) ==
    IF st.kind # "return" THEN "propagate"
    ELSE IF ~IsDict(st.value) THEN "attribute_error"
    ELSE IF Truthy(DictGet(st.value, "synced", PyNone)) THEN "return"
    ELSE "sleep"

\* The loop body after get_status() has ended with st at time clock:
\*   "propagate"        get_status raised, the exception leaves wait_for_sync
\*   "attribute_error"  status.get raised (the decoded status is not a dict)
\*   "return"           status.get("synced") is true
\*   "timeout"          time.monotonic() >= deadline
\*   "sleep"            otherwise
LoopStep(st, clock, dl) ==
    IF st.kind # "return" THEN "propagate"
    ELSE IF ~IsDict(st.value) THEN "attribute_error"
    ELSE IF Truthy(DictGet(st.value, "synced", PyNone)) THEN "return"
    ELSE IF clock >= dl THEN "timeout"
    ELSE "sleep"

\* SleepSeconds gone wrong: the sleep given the timeout instead of the interval
SleepWholeTimeout(iv, to) == to

\* time.sleep(interval) / await asyncio.sleep(interval): the seconds asked for
SleepSeconds(iv, to) == iv

\* Status responses of the node
StatusBodies ==
    { "{\"synced\": true, \"blockHeight\": 100}",
      "{\"synced\": true, \"blockHeight\": 101}",
      "{\"synced\": false, \"blockHeight\": 7}",
      "{\"blockHeight\": 8}",
      "[1, 2]", "" }
StatusResponses ==
    {HttpResponse(200, b) : b \in StatusBodies}
    \cup {HttpResponse(500, "{\"error\": {\"message\": \"boom\"}}"), NetworkFailure}

MaxStart == 1

\* no example script running
NoAgent ==
    [example |-> "", pc |-> "off", nonce |-> 0, sent |-> <<>>, tasks |-> <<>>,
     raised |-> 0, status |-> PyNone, identity |-> PyNone, balance |-> PyNone,
     task |-> PyNone, contract |-> PyNone, result |-> PyNone, error |-> "",
     loop |-> "running"]

NoHist ==
    [first |-> NoOutcome, done |-> 0, fetchEnd |-> 0, fetchDur |-> 0, over |-> 0,
     resp |-> NoResponse, cancelIn |-> "", cancelFetches |-> 0, base |-> <<>>]

SyncNotCalled ==
    /\ variant \in {"sync", "async"}
    /\ wpc = "start"
    /\ now \in 0..MaxStart
    /\ t0 = 0
    /\ timeout = 0
    /\ interval = 0
    /\ deadline = 0
    /\ fetches = 0
    /\ sleeps = 0
    /\ status = NoOutcome
    /\ wres = NoOutcome
    /\ agent = NoAgent
    /\ hist = NoHist

\* WaitForSync gone wrong: a loop that tests the deadline at its head, before any fetch
WaitForSyncCheckFirst(iv, to) ==
    /\ wpc = "start"
    /\ t0' = now
    /\ interval' = iv
    /\ timeout' = to
    /\ deadline' = Deadline(now, to)
    /\ IF now >= Deadline(now, to)
       THEN /\ wpc' = "done"
            /\ wres' = TimeoutError(to)
            /\ fetches' = fetches
       ELSE /\ wpc' = "fetching"
            /\ wres' = wres
            /\ fetches' = fetches + 1
    /\ UNCHANGED <<agent, variant, now, sleeps, status, hist>>
    /\ UNCHANGED httpVars

\* wait_for_sync(interval=iv, timeout=to) is called: the deadline is computed
\* and the first get_status() is issued
WaitForSync(iv, to) ==
    /\ wpc = "start"
    /\ t0' = now
    /\ interval' = iv
    /\ timeout' = to
    /\ deadline' = Deadline(now, to)
    /\ fetches' = fetches + 1
    /\ wpc' = "fetching"
    /\ UNCHANGED <<agent, variant, now, sleeps, status, wres, hist>>
    /\ UNCHANGED httpVars

\* FetchEnd gone wrong: the sleep placed before the deadline test, so that the
\* loop sleeps once more before it raises the timeout
FetchEndSleepBeforeCheck(d, r) ==
    /\ wpc = "fetching"
    /\ LET st == HttpOutcome(r)
           clock == now + d
           step == LoopStep(st, clock, deadline)
       IN  /\ now' = IF step = "timeout" THEN clock + SleepSeconds(interval, timeout) ELSE clock
           /\ status' = st
           /\ hist' = [hist EXCEPT !.first = IF hist.done = 0 THEN st ELSE @,
                                   !.done = @ + 1,
                                   !.fetchEnd = clock,
                                   !.fetchDur = d,
                                   !.resp = r]
           /\ wres' = CASE step = "propagate" -> st
                        [] step = "attribute_error" -> AttributeError
                        [] step = "return" -> Returned(st.value)
                        [] step = "timeout" -> TimeoutError(timeout)
                        [] OTHER -> wres
           /\ wpc' = IF step = "sleep" THEN "sleeping" ELSE "done"
           /\ sleeps' = IF step \in {"sleep", "timeout"} THEN sleeps + 1 ELSE sleeps
    /\ UNCHANGED <<agent, variant, t0, timeout, interval, deadline, fetches>>
    /\ UNCHANGED httpVars

\* get_status() ends after d seconds with response r (or a failure), and the
\* loop body runs up to its return, raise or sleep
FetchEnd(d, r) ==
    /\ wpc = "fetching"
    /\ LET st == HttpOutcome(r)
           clock == now + d
           step == LoopStep(st, clock, deadline)
       IN  /\ now' = clock
           /\ status' = st
           /\ hist' = [hist EXCEPT !.first = IF hist.done = 0 THEN st ELSE @,
                                   !.done = @ + 1,
                                   !.fetchEnd = clock,
                                   !.fetchDur = d,
                                   !.resp = r]
           /\ wres' = CASE step = "propagate" -> st
                        [] step = "attribute_error" -> AttributeError
                        [] step = "return" -> Returned(st.value)
                        [] step = "timeout" -> TimeoutError(timeout)
                        [] OTHER -> wres
           /\ wpc' = IF step = "sleep" THEN "sleeping" ELSE "done"
           /\ sleeps' = IF step = "sleep" THEN sleeps + 1 ELSE sleeps
    /\ UNCHANGED <<agent, variant, t0, timeout, interval, deadline, fetches>>
    /\ UNCHANGED httpVars

\* the sleep ends (over: the seconds it overran) and the next get_status()
\* is issued
SleepEnd(over) ==
    /\ wpc = "sleeping"
    /\ fetches < MaxFetches
    /\ now' = now + SleepSeconds(interval, timeout) + over
    /\ hist' = [hist EXCEPT !.over = over]
    /\ fetches' = fetches + 1
    /\ wpc' = "fetching"
    /\ UNCHANGED <<agent, variant, t0, timeout, interval, deadline, sleeps, status, wres>>
    /\ UNCHANGED httpVars

\* asyncio.CancelledError, thrown into the coroutine at the await it is
\* suspended in
CancelledError ==
    [kind |-> "cancelled", value |-> PyNone, status |-> 0,
     message |-> PyNone, code |-> PyNone]

\* Cancel gone wrong: a cancellation that arrives during the sleep is caught
\* and the loop goes on to its next get_status()
CancelSwallowed(after) ==
    /\ variant = "async"
    /\ wpc \in {"fetching", "sleeping"}
    /\ now' = now + after
    /\ hist' = [hist EXCEPT !.cancelIn = wpc, !.cancelFetches = fetches]
    /\ IF wpc = "sleeping" /\ fetches < MaxFetches
       THEN /\ wpc' = "fetching"
            /\ fetches' = fetches + 1
            /\ wres' = wres
       ELSE /\ wpc' = "done"
            /\ fetches' = fetches
            /\ wres' = CancelledError
    /\ UNCHANGED <<agent, variant, t0, timeout, interval, deadline, sleeps, status>>
    /\ UNCHANGED httpVars

\* the task that awaits the non-blocking wait_for_sync is cancelled, after
\* seconds into the await it is suspended in (`await self.get_status()` or
\* `await asyncio.sleep(interval)`): CancelledError is raised at that await,
\* nothing in the loop catches it, and it leaves wait_for_sync
Cancel(after) ==
    /\ variant = "async"
    /\ wpc \in {"fetching", "sleeping"}
    /\ now' = now + after
    /\ hist' = [hist EXCEPT !.cancelIn = wpc, !.cancelFetches = fetches]
    /\ wpc' = "done"
    /\ wres' = CancelledError
    /\ UNCHANGED <<agent, variant, t0, timeout, interval, deadline, fetches, sleeps, status>>
    /\ UNCHANGED httpVars

SyncIdle ==
    /\ variant = "sync"
    /\ wpc = "start"
    /\ now = 0
    /\ t0 = 0
    /\ timeout = 0
    /\ interval = 0
    /\ deadline = 0
    /\ fetches = 0
    /\ sleeps = 0
    /\ status = NoOutcome
    /\ wres = NoOutcome
    /\ agent = NoAgent
    /\ hist = NoHist

----------------------------------------------------------------------------
(* The non-blocking variant: AsyncHttpClient (http.py) and AsyncNodeApi
   (node.py). A second client, the twin, is constructed from the same
   arguments as the blocking one and follows it: each of its calls takes the
   arguments of the blocking call and is answered with the response (and the
   durations) the blocking call was answered with. _build_url and
   _handle_error are module functions, shared by the two classes. *)

\* AsyncHttpClient.__init__: self.base_url
AsyncNewBaseUrl(base) == RStrip(base)

\* AsyncHttpClient.__init__: the _headers handed to httpx.AsyncClient
AsyncNewHeaders(api_key, headers) ==
    LET h0 == << <<"Content-Type", "application/json">> >>
        h1 == IF ~api_key.none /\ api_key.v # ""
              THEN DictSet(h0, "Authorization", "Bearer " \o api_key.v)
              ELSE h0
    IN  IF ~headers.none /\ headers.v # <<>>
        THEN DictUpdate(h1, headers.v)
        ELSE h1

\* AsyncHttpOutcome gone wrong: the error check left out of the async verb
AsyncHttpOutcomeUnchecked(r) ==
    IF r.net THEN NetworkError
    ELSE LET v == JsonLoads(r.text) IN
         IF v = JInvalid THEN DecodeError ELSE Returned(v)

\* the rest of the async get/post/put/delete once "await self._client.<verb>(url)"
\* has ended: _handle_error(resp); return resp.json()
AsyncHttpOutcome(r) ==
    IF r.net THEN NetworkError
    ELSE LET e == HandleError(r) IN
         IF e.kind # "none" THEN e
         ELSE LET v == JsonLoads(r.text) IN
              IF v = JInvalid THEN DecodeError ELSE Returned(v)

\* AsyncNodeApi.wait_for_sync: deadline = time.monotonic() + timeout
AsyncDeadline(clock, to) == clock + to

\* AsyncLoopStep gone wrong: the deadline compared with > instead of >=
AsyncLoopStepStrict(st, clock, dl) ==
    IF st.kind # "return" THEN "propagate"
    ELSE IF ~IsDict(st.value) THEN "attribute_error"
    ELSE IF Truthy(DictGet(st.value, "synced", PyNone)) THEN "return"
    ELSE IF clock > dl THEN "timeout"
    ELSE "sleep"

\* AsyncNodeApi.wait_for_sync: the loop body after "await self.get_status()"
AsyncLoopStep(st, clock, dl) ==
    IF st.kind # "return" THEN "propagate"
    ELSE IF ~IsDict(st.value) THEN "attribute_error"
    ELSE IF Truthy(DictGet(st.value, "synced", PyNone)) THEN "return"
    ELSE IF clock >= dl THEN "timeout"
    ELSE "sleep"

\* await asyncio.sleep(interval): the seconds asked for
AsyncSleepSeconds(iv, to) == iv

\* the blocking call in progress, whose arguments the twin's call takes
Leading(method) == hpc \in {"inflight", "done"} /\ req.method = method

\* await AsyncHttpClient.get(path, params)
AsyncGet ==
    /\ Leading("GET")
    /\ twin.pc = "idle"
    /\ twin.calls < calls
    /\ twin' = [twin EXCEPT
                  !.pc = "inflight",
                  !.calls = @ + 1,
                  !.sent = @ + 1,
                  !.req = [method |-> "GET",
                           url |-> BuildUrl(twin.base_url, req.path, req.params),
                           path |-> req.path, params |-> req.params, body |-> PyNone,
                           headers |-> twin.headers]]
    /\ UNCHANGED <<base_url, hpc, req, resp, outcome, sent, calls, client, wcall>>
    /\ UNCHANGED syncVars

\* await AsyncHttpClient.post(path, body)
AsyncPost ==
    /\ Leading("POST")
    /\ twin.pc = "idle"
    /\ twin.calls < calls
    /\ twin' = [twin EXCEPT
                  !.pc = "inflight",
                  !.calls = @ + 1,
                  !.sent = @ + 1,
                  !.req = [method |-> "POST",
                           url |-> BuildUrl(twin.base_url, req.path, NoParams),
                           path |-> req.path, params |-> NoParams, body |-> req.body,
                           headers |-> twin.headers]]
    /\ UNCHANGED <<base_url, hpc, req, resp, outcome, sent, calls, client, wcall>>
    /\ UNCHANGED syncVars

\* await AsyncHttpClient.put(path, body)
AsyncPut ==
    /\ Leading("PUT")
    /\ twin.pc = "idle"
    /\ twin.calls < calls
    /\ twin' = [twin EXCEPT
                  !.pc = "inflight",
                  !.calls = @ + 1,
                  !.sent = @ + 1,
                  !.req = [method |-> "PUT",
                           url |-> BuildUrl(twin.base_url, req.path, NoParams),
                           path |-> req.path, params |-> NoParams, body |-> req.body,
                           headers |-> twin.headers]]
    /\ UNCHANGED <<base_url, hpc, req, resp, outcome, sent, calls, client, wcall>>
    /\ UNCHANGED syncVars

\* await AsyncHttpClient.delete(path, params)
AsyncDelete ==
    /\ Leading("DELETE")
    /\ twin.pc = "idle"
    /\ twin.calls < calls
    /\ twin' = [twin EXCEPT
                  !.pc = "inflight",
                  !.calls = @ + 1,
                  !.sent = @ + 1,
                  !.req = [method |-> "DELETE",
                           url |-> BuildUrl(twin.base_url, req.path, req.params),
                           path |-> req.path, params |-> req.params, body |-> PyNone,
                           headers |-> twin.headers]]
    /\ UNCHANGED <<base_url, hpc, req, resp, outcome, sent, calls, client, wcall>>
    /\ UNCHANGED syncVars

\* the twin's httpx call ends with the response the blocking call received,
\* and the async verb finishes
AsyncComplete ==
    /\ hpc = "done"
    /\ twin.pc = "inflight"
    /\ twin' = [twin EXCEPT !.pc = "done",
                            !.resp = resp,
                            !.outcome = AsyncHttpOutcome(resp)]
    /\ UNCHANGED <<base_url, hpc, req, resp, outcome, sent, calls, client, wcall>>
    /\ UNCHANGED syncVars

\* both callers take their results; both clients are free for the next call
TwinReturn ==
    /\ hpc = "done"
    /\ twin.pc = "done"
    /\ hpc' = "idle"
    /\ req' = NoRequest
    /\ resp' = NoResponse
    /\ outcome' = NoOutcome
    /\ wcall' = NoWrapperCall
    /\ twin' = [twin EXCEPT !.pc = "idle", !.req = NoRequest, !.resp = NoResponse,
                            !.outcome = NoOutcome]
    /\ UNCHANGED <<base_url, sent, calls, client>>
    /\ UNCHANGED syncVars

\* await AsyncNodeApi.wait_for_sync(interval=..., timeout=...) with the
\* arguments and at the clock of the blocking call
AsyncWaitForSync ==
    /\ wpc # "start"
    /\ twin.wpc = "start"
    /\ twin' = [twin EXCEPT !.wpc = "fetching",
                            !.now = t0,
                            !.deadline = AsyncDeadline(t0, timeout),
                            !.fetches = @ + 1]
    /\ UNCHANGED httpVarsButTwin
    /\ UNCHANGED syncVars

\* the twin's "await self.get_status()" ends as the blocking fetch of the
\* same rank ended (same duration, same response), and the loop body runs
AsyncFetchEnd ==
    /\ twin.wpc = "fetching"
    /\ hist.done = twin.done + 1
    /\ LET st == AsyncHttpOutcome(hist.resp)
           clock == twin.now + hist.fetchDur
           step == AsyncLoopStep(st, clock, twin.deadline)
       IN  twin' = [twin EXCEPT
                     !.now = clock,
                     !.status = st,
                     !.done = @ + 1,
                     !.wres = CASE step = "propagate" -> st
                                [] step = "attribute_error" -> AttributeError
                                [] step = "return" -> Returned(st.value)
                                [] step = "timeout" -> TimeoutError(timeout)
                                [] OTHER -> @,
                     !.wpc = IF step = "sleep" THEN "sleeping" ELSE "done",
                     !.sleeps = IF step = "sleep" THEN @ + 1 ELSE @]
    /\ UNCHANGED httpVarsButTwin
    /\ UNCHANGED syncVars

\* the twin's "await asyncio.sleep(interval)" ends (overrunning as the
\* blocking sleep did) and its next get_status() is issued
AsyncSleepEnd ==
    /\ twin.wpc = "sleeping"
    /\ fetches > twin.fetches
    /\ twin' = [twin EXCEPT !.now = @ + AsyncSleepSeconds(interval, timeout) + hist.over,
                            !.fetches = @ + 1,
                            !.wpc = "fetching"]
    /\ UNCHANGED httpVarsButTwin
    /\ UNCHANGED syncVars

\* the twin has done all the blocking helper has done
TwinCaughtUp ==
    /\ twin.wpc = wpc
    /\ twin.fetches = fetches
    /\ twin.done = hist.done

\* Inputs of the twin model
TwinParams ==
    { NoParams, ParamDict(<< <<<<"a">>, PStr(<<"d", ":", "x">>)>>, <<<<"b">>, PNone>> >>),
      ParamDict(<< <<<<"a">>, PSeq(<<>>)>> >>) }
TwinConfigs ==
    { <<NoApiKey, NoExtraHeaders>>,
      <<PyGiven("secret"), PyGiven(<< <<"Content-Type", "text/plain">>, <<"X-Trace", "1">> >>)>> }

\* a blocking and a non-blocking client constructed from the same arguments
BothConstructed ==
    /\ hpc = "idle"
    /\ req = NoRequest
    /\ resp = NoResponse
    /\ outcome = NoOutcome
    /\ sent = 0
    /\ calls = 0
    /\ wcall = NoWrapperCall
    /\ \E b \in BaseInputs, cfg \in TwinConfigs :
          /\ base_url = NewBaseUrl(b)
          /\ client = NewClient(cfg[1], cfg[2])
          /\ twin = [NoTwin EXCEPT !.pc = "idle",
                                   !.base_url = AsyncNewBaseUrl(b),
                                   !.headers = AsyncNewHeaders(cfg[1], cfg[2])]

----------------------------------------------------------------------------
(* Calls issued concurrently through one AsyncHttpClient (asyncio.gather in
   async_agent.py): each call is a coroutine with its own locals url and
   resp; the calls are numbered in the order they are started, are suspended
   at `await self._client.<verb>(...)` and are resumed in the order the event
   loop picks. When a call has raised, or all have returned, main leaves its
   `async with` block, awaits aclose() and ends; asyncio.run then cancels the
   calls that are left. The calls go on being answered and resumed until
   they are cancelled. *)

MaxTasks == 3

\* a coroutine that has not been started
NoTask == [pc |-> "new", req |-> NoRequest, resp |-> NoResponse, outcome |-> NoOutcome]

ConcPaths == { <<"/", "api", "/", "node", "/", "status">> }
ConcParams == { ParamDict(<< <<<<"a">>, PStr(<<"d", ":", "x">>)>> >>) }
ConcResponses ==
    { HttpResponse(200, "{\"ok\": true}"),
      HttpResponse(404, "{\"error\": {\"code\": \"NOT_FOUND\", \"message\": \"Resource not found\"}}") }
ConcBases == { <<"h", "/">> }
ConcConfigs ==
    { <<PyGiven("secret"), PyGiven(<< <<"X-Trace", "1">> >>)>> }

\* the non-blocking client constructed, no coroutine started yet
ConcConstructed ==
    /\ hpc = "idle"
    /\ req = NoRequest
    /\ resp = NoResponse
    /\ outcome = NoOutcome
    /\ sent = 0
    /\ calls = 0
    /\ wcall = NoWrapperCall
    /\ \E b \in ConcBases, cfg \in ConcConfigs :
          /\ base_url = NewBaseUrl(b)
          /\ client = NewClient(cfg[1], cfg[2])
          /\ twin = [NoTwin EXCEPT !.pc = "idle",
                                   !.base_url = AsyncNewBaseUrl(b),
                                   !.headers = AsyncNewHeaders(cfg[1], cfg[2]),
                                   !.tasks = [t \in 1..MaxTasks |-> NoTask]]
          /\ hist = [NoHist EXCEPT !.base = b]
    /\ variant = "async"
    /\ wpc = "start"
    /\ now = 0
    /\ t0 = 0
    /\ timeout = 0
    /\ interval = 0
    /\ deadline = 0
    /\ fetches = 0
    /\ sleeps = 0
    /\ status = NoOutcome
    /\ wres = NoOutcome
    /\ agent = NoAgent

\* coroutine t runs AsyncHttpClient.get(path, params) up to its await
TaskGet(t, path, params) ==
    /\ ~twin.closed
    /\ twin.tasks[t].pc = "new"
    /\ \A u \in 1..(t - 1) : twin.tasks[u].pc # "new"
    /\ twin' = [twin EXCEPT
                  !.sent = @ + 1,
                  !.tasks[t] = [pc |-> "inflight",
                                req |-> [method |-> "GET",
                                         url |-> BuildUrl(twin.base_url, path, params),
                                         path |-> path, params |-> params, body |-> PyNone,
                                         headers |-> twin.headers],
                                resp |-> NoResponse, outcome |-> NoOutcome]]
    /\ UNCHANGED <<base_url, hpc, req, resp, outcome, sent, calls, client, wcall>>
    /\ UNCHANGED syncVars

\* coroutine t runs AsyncHttpClient.post(path, body) up to its await
TaskPost(t, path, body) ==
    /\ ~twin.closed
    /\ twin.tasks[t].pc = "new"
    /\ \A u \in 1..(t - 1) : twin.tasks[u].pc # "new"
    /\ twin' = [twin EXCEPT
                  !.sent = @ + 1,
                  !.tasks[t] = [pc |-> "inflight",
                                req |-> [method |-> "POST",
                                         url |-> BuildUrl(twin.base_url, path, NoParams),
                                         path |-> path, params |-> NoParams, body |-> body,
                                         headers |-> twin.headers],
                                resp |-> NoResponse, outcome |-> NoOutcome]]
    /\ UNCHANGED <<base_url, hpc, req, resp, outcome, sent, calls, client, wcall>>
    /\ UNCHANGED syncVars

\* coroutine t runs AsyncHttpClient.put(path, body) up to its await
TaskPut(t, path, body) ==
    /\ ~twin.closed
    /\ twin.tasks[t].pc = "new"
    /\ \A u \in 1..(t - 1) : twin.tasks[u].pc # "new"
    /\ twin' = [twin EXCEPT
                  !.sent = @ + 1,
                  !.tasks[t] = [pc |-> "inflight",
                                req |-> [method |-> "PUT",
                                         url |-> BuildUrl(twin.base_url, path, NoParams),
                                         path |-> path, params |-> NoParams, body |-> body,
                                         headers |-> twin.headers],
                                resp |-> NoResponse, outcome |-> NoOutcome]]
    /\ UNCHANGED <<base_url, hpc, req, resp, outcome, sent, calls, client, wcall>>
    /\ UNCHANGED syncVars

\* coroutine t runs AsyncHttpClient.delete(path, params) up to its await
TaskDelete(t, path, params) ==
    /\ ~twin.closed
    /\ twin.tasks[t].pc = "new"
    /\ \A u \in 1..(t - 1) : twin.tasks[u].pc # "new"
    /\ twin' = [twin EXCEPT
                  !.sent = @ + 1,
                  !.tasks[t] = [pc |-> "inflight",
                                req |-> [method |-> "DELETE",
                                         url |-> BuildUrl(twin.base_url, path, params),
                                         path |-> path, params |-> params, body |-> PyNone,
                                         headers |-> twin.headers],
                                resp |-> NoResponse, outcome |-> NoOutcome]]
    /\ UNCHANGED <<base_url, hpc, req, resp, outcome, sent, calls, client, wcall>>
    /\ UNCHANGED syncVars

\* the answer to the request of coroutine t arrives (or its connection
\* fails): httpx completes the awaited call of t with it. An answer that
\* arrives after aclose() was entered, or after main has ended, is handed to
\* its call all the same, as long as the call was not cancelled
TaskRespond(t, r) ==
    /\ twin.tasks[t].pc = "inflight"
    /\ twin' = [twin EXCEPT !.tasks[t].pc = "answered", !.tasks[t].resp = r]
    /\ UNCHANGED <<base_url, hpc, req, resp, outcome, sent, calls, client, wcall>>
    /\ UNCHANGED syncVars

\* one of the gathered calls has raised: asyncio.gather hands its exception to
\* main, the exception leaves `async with AsyncClawNetClient(...)`, and
\* __aexit__ awaits aclose() under the calls still in flight: the client is
\* closed, and `await self._client.aclose()` returns to the event loop while
\* the connections are dropped
GatherRaises ==
    /\ twin.main = "running"
    /\ ~twin.closed
    /\ \E t \in 1..MaxTasks :
          twin.tasks[t].pc = "done" /\ twin.tasks[t].outcome.kind # "return"
    /\ twin' = [twin EXCEPT !.closed = TRUE, !.main = "closing"]
    /\ UNCHANGED <<base_url, hpc, req, resp, outcome, sent, calls, client, wcall>>
    /\ UNCHANGED syncVars

\* every gathered call has returned: asyncio.gather hands the results to
\* main, the end of the `async with` block is reached, and __aexit__ awaits
\* aclose() with no call in flight
GatherReturns ==
    /\ twin.main = "running"
    /\ ~twin.closed
    /\ twin.tasks[1].pc # "new"
    /\ \A t \in 1..MaxTasks :
          twin.tasks[t].pc # "new" =>
             twin.tasks[t].pc = "done" /\ twin.tasks[t].outcome.kind = "return"
    /\ twin' = [twin EXCEPT !.closed = TRUE, !.main = "closing"]
    /\ UNCHANGED <<base_url, hpc, req, resp, outcome, sent, calls, client, wcall>>
    /\ UNCHANGED syncVars

\* the client is closed and call t has no answer yet: its await is completed
\* with httpx.ReadError, its connection was dropped
TaskReadError(t) ==
    /\ twin.closed
    /\ twin.tasks[t].pc = "inflight"
    /\ twin' = [twin EXCEPT !.tasks[t].pc = "answered", !.tasks[t].resp = NetworkFailure]
    /\ UNCHANGED <<base_url, hpc, req, resp, outcome, sent, calls, client, wcall>>
    /\ UNCHANGED syncVars

\* aclose() has returned, __aexit__ returns None and main ends, with the
\* exception of the gathered call or normally; the event loop goes on
MainEnds ==
    /\ twin.main = "closing"
    /\ twin' = [twin EXCEPT !.main = "ended"]
    /\ UNCHANGED <<base_url, hpc, req, resp, outcome, sent, calls, client, wcall>>
    /\ UNCHANGED syncVars

\* asyncio.run(main()), main having ended: every task that has not ended is
\* cancelled, whether it has no answer yet or has one and was not resumed
\* since; an answer that was not yet handed to the coroutine is dropped,
\* `resp = await ...` never assigns it
RunCancels ==
    /\ twin.main = "ended"
    /\ twin' = [twin EXCEPT
                  !.main = "over",
                  !.tasks = [t \in DOMAIN twin.tasks |->
                               IF twin.tasks[t].pc \in {"inflight", "answered"}
                               THEN [twin.tasks[t] EXCEPT !.pc = "cancelling",
                                                          !.resp = NoResponse]
                               ELSE twin.tasks[t]]]
    /\ UNCHANGED <<base_url, hpc, req, resp, outcome, sent, calls, client, wcall>>
    /\ UNCHANGED syncVars

\* TaskResume gone wrong: the response kept in a slot of the client that the
\* calls share, so that a resumed call reads the answer that arrived for the
\* first answered call
TaskResumeShared(t) ==
    /\ twin.tasks[t].pc = "answered"
    /\ LET u == CHOOSE x \in 1..MaxTasks :
                    /\ twin.tasks[x].pc = "answered"
                    /\ \A y \in 1..MaxTasks : twin.tasks[y].pc = "answered" => x <= y
       IN twin' = [twin EXCEPT !.tasks[t].pc = "done",
                               !.tasks[t].outcome = AsyncHttpOutcome(twin.tasks[u].resp)]
    /\ UNCHANGED <<base_url, hpc, req, resp, outcome, sent, calls, client, wcall>>
    /\ UNCHANGED syncVars

\* the event loop resumes coroutine t after its await: _handle_error(resp)
\* and `return resp.json()` on its local resp; a cancelled coroutine is
\* resumed with asyncio.CancelledError instead
TaskResume(t) ==
    /\ twin.tasks[t].pc \in {"answered", "cancelling"}
    /\ twin' = [twin EXCEPT !.tasks[t].pc = "done",
                            !.tasks[t].outcome =
                                IF twin.tasks[t].pc = "cancelling" THEN CancelledError
                                ELSE AsyncHttpOutcome(twin.tasks[t].resp)]
    /\ UNCHANGED <<base_url, hpc, req, resp, outcome, sent, calls, client, wcall>>
    /\ UNCHANGED syncVars

----------------------------------------------------------------------------
(* examples/python-agent: agent.py and async_agent.py, each from the
   construction of its client to the end of main. Every call of the SDK is two
   steps: the request leaves, and main blocks (agent.py) or awaits
   (async_agent.py) until the node has answered; then the answer is handled.
   In agent.py only the first step of main is inside a try block; in
   async_agent.py only the gather is. *)

\* NextNonce gone wrong: the counter is not advanced, every call returns 1
NextNonceStuck(n) == 1

\* next_nonce(): `_nonce += 1; return _nonce`, given the value of the global
NextNonce(n) == n + 1

\* the characters of the identifiers of an example run
Chars(x) ==
    CASE x = "t-1" -> <<"t", "-", "1">>
      [] x = "t 2" -> <<"t", " ", "2">>
      [] x = "ct-1" -> <<"c", "t", "-", "1">>
      [] x = "ct/2" -> <<"c", "t", "/", "2">>
      [] x = "did:claw:z6MkExampleAgent" -> <<"did", ":", "claw", ":", "z6MkExampleAgent">>
      [] x = "ms-1" -> <<"m", "s", "-", "1">>
      [] OTHER -> <<>>

\* the defaults of CLAW_NODE_URL, CLAW_AGENT_DID and CLAW_PASSPHRASE
NODE_URL == <<"http", ":", "/", "/", "127.0.0.1", ":", "9528">>
AGENT_DID == PyStr("did:claw:z6MkExampleAgent")
PASSPHRASE == PyStr("super-secret")

\* client.node.wait_for_sync(interval=2.0, timeout=60.0)
SYNC_INTERVAL == 2
SYNC_TIMEOUT == 60
\* time.sleep(3) between the bid and the contract
ACCEPT_WAIT == 3
\* the coroutines handed to asyncio.gather
Gathered == 3

StatusAnswers ==
    { HttpResponse(200, "{\"network\": \"testnet\", \"blockHeight\": 100, \"synced\": true}"),
      HttpResponse(200, "{\"network\": \"testnet\", \"blockHeight\": 7, \"synced\": false}"),
      HttpResponse(200, "{\"synced\": true, \"blockHeight\": 100}"),
      HttpResponse(200, "[1, 2]"),
      HttpResponse(500, "{\"error\": {\"message\": \"boom\"}}"),
      NetworkFailure }
IdentityAnswers ==
    { HttpResponse(200, "{\"did\": \"did:claw:z6MkExampleAgent\", \"publicKey\": \"z6Mk\"}"),
      HttpResponse(200, "{\"ok\": true}"),
      HttpResponse(404, "{\"error\": {\"code\": \"NOT_FOUND\", \"message\": \"Resource not found\"}}"),
      NetworkFailure }
BalanceAnswers ==
    { HttpResponse(200, "{\"available\": 100, \"locked\": 0}"),
      HttpResponse(200, "{\"available\": 100}"),
      HttpResponse(200, "{\"available\": \"100\", \"locked\": \"0\"}"),
      HttpResponse(404, "{\"error\": {\"code\": \"NOT_FOUND\", \"message\": \"Resource not found\"}}"),
      NetworkFailure }
SearchResponses ==
    { HttpResponse(200, "{\"total\": 0, \"items\": []}"),
      HttpResponse(200, "{\"total\": 1, \"items\": [{\"id\": \"t-1\"}]}"),
      HttpResponse(200, "{\"total\": 2, \"items\": [{\"id\": \"t 2\"}, {\"id\": \"t-1\"}]}"),
      HttpResponse(200, "{\"ok\": true}"),
      HttpResponse(500, "{\"error\": {\"message\": \"boom\"}}"),
      NetworkFailure }
AgentResponses ==
    { HttpResponse(200, "{\"contractId\": \"ct-1\", \"txHash\": \"tx-1\"}"),
      HttpResponse(200, "{\"contractId\": \"ct/2\", \"txHash\": \"tx-2\"}"),
      HttpResponse(200, "{\"ok\": true}"),
      HttpResponse(200, ""),
      HttpResponse(404, "{\"error\": {\"code\": \"NOT_FOUND\", \"message\": \"Resource not found\"}}"),
      NetworkFailure }

\* what the call of the running example ends with
AgentOutcome(r) ==
    IF agent.example = "agent" THEN HttpOutcome(r) ELSE AsyncHttpOutcome(r)

\* the exception main sees after a call that ended with o and whose result
\* is then subscripted with every key of keys; "" when main goes on
AgentFailure(o, keys) ==
    CASE o.kind = "node_error" -> "ClawNetError"
      [] o.kind = "network_error" -> "TransportError"
      [] o.kind = "decode_error" -> "JSONDecodeError"
      [] o.kind = "timeout" -> "TimeoutError"
      [] o.kind = "attribute_error" -> "AttributeError"
      [] ~IsDict(o.value) -> "TypeError"
      [] \E k \in keys : ~DictHas(o.value, k) -> "KeyError"
      [] OTHER -> ""

\* an exception on its way out of main: the one the call raised, or the one
\* main raised itself (KeyError, IndexError, TypeError, SystemExit)
AgentException(o, name) ==
    IF name = "" THEN NoOutcome
    ELSE IF o.kind \notin {"return", "none"} /\ name # "SystemExit" THEN o
    ELSE [kind |-> name, value |-> PyNone, status |-> 0, message |-> PyNone, code |-> PyNone]

\* the client once main is at stage pc2: main is over when it returned early
\* ("rested"), an exception left it ("failed"), sys.exit(1) was called
\* ("exited") or its last line was reached ("complete"); async_agent.py then
\* leaves its `async with` block and __aexit__ closes the client; agent.py
\* never closes its client
AgentClientAt(pc2, exc) ==
    IF agent.example = "async_agent" /\ pc2 \in {"rested", "failed", "exited", "complete"}
    THEN [ExitResult(client, exc).client EXCEPT
             !.scope = "exited",
             !.exitBy = CASE pc2 = "rested" -> "return"
                          [] pc2 = "complete" -> "normal"
                          [] OTHER -> "exception",
             !.propagated = exc]
    ELSE client

\* the GET and the POST a wrapper of the example hands to the transport
AgentGet(path, params) ==
    [method |-> "GET", url |-> BuildUrl(base_url, path, params),
     path |-> path, params |-> params, body |-> PyNone,
     headers |-> client.headers]
AgentPost(path, kwargs) ==
    [method |-> "POST", url |-> BuildUrl(base_url, path, NoParams),
     path |-> path, params |-> NoParams, body |-> kwargs,
     headers |-> client.headers]

\* the keyword arguments of the bid, with nonce n
BidKwargs(n) ==
    PyDict(<< <<"did", AGENT_DID>>, <<"passphrase", PASSPHRASE>>,
              <<"nonce", PyNum(ToString(n))>>, <<"amount", PyNum("50")>>,
              <<"message", PyStr(IF agent.example = "agent"
                                 THEN "I can complete this data analysis within 24 hours."
                                 ELSE "Async agent ready to work!")>> >>)

\* str(int(time.time() * 1000) + 7 * 86_400_000), the clock given as
\* ms = <<h, l>> for h * 1000000 + l milliseconds since the epoch (the sum is
\* formed in two halves, its value being beyond the integers of the model)
DeadlineText(ms) ==
    LET lo == ms[2] + 800000
        hi == ms[1] + 604 + (lo \div 1000000)
        r == lo % 1000000
        pad == IF r < 10 THEN "00000"
               ELSE IF r < 100 THEN "0000"
               ELSE IF r < 1000 THEN "000"
               ELSE IF r < 10000 THEN "00"
               ELSE IF r < 100000 THEN "0"
               ELSE ""
    IN  ToString(hi) \o pad \o ToString(r)

\* the keyword arguments of contracts.create, with nonce n at clock ms
CreateKwargs(n, ms) ==
    IF agent.example = "agent"
    THEN PyDict(<< <<"did", AGENT_DID>>, <<"passphrase", PASSPHRASE>>,
                   <<"nonce", PyNum(ToString(n))>>, <<"provider", AGENT_DID>>,
                   <<"terms", PyDict(<<
                        <<"title", PyStr("Data Analysis Service")>>,
                        <<"description", PyStr("Perform data analysis on the provided dataset")>>,
                        <<"deliverables", PyList(<< <<"0", PyStr("analysis-report.pdf")>>,
                                                    <<"1", PyStr("cleaned-data.csv")>> >>)>>,
                        <<"deadline", PyNum(DeadlineText(ms))>> >>)>>,
                   <<"payment", PyDict(<<
                        <<"type", PyStr("milestone")>>,
                        <<"totalAmount", PyNum("50")>>,
                        <<"escrowRequired", PyBool("true")>> >>)>>,
                   <<"milestones", PyList(<<
                        <<"0", PyDict(<<
                             <<"id", PyStr("ms-1")>>,
                             <<"title", PyStr("Data Cleaning")>>,
                             <<"amount", PyNum("20")>>,
                             <<"percentage", PyNum("40")>>,
                             <<"deliverables", PyList(<< <<"0", PyStr("cleaned-data.csv")>> >>)>> >>)>>,
                        <<"1", PyDict(<<
                             <<"id", PyStr("ms-2")>>,
                             <<"title", PyStr("Analysis Report")>>,
                             <<"amount", PyNum("30")>>,
                             <<"percentage", PyNum("60")>>,
                             <<"deliverables", PyList(<< <<"0", PyStr("analysis-report.pdf")>> >>)>> >>)>> >>)>> >>)
    ELSE PyDict(<< <<"did", AGENT_DID>>, <<"passphrase", PASSPHRASE>>,
                   <<"nonce", PyNum(ToString(n))>>, <<"provider", AGENT_DID>>,
                   <<"terms", PyDict(<<
                        <<"title", PyStr("Async Data Analysis")>>,
                        <<"description", PyStr("Analyse dataset asynchronously")>>,
                        <<"deliverables", PyList(<< <<"0", PyStr("report.pdf")>> >>)>>,
                        <<"deadline", PyNum(DeadlineText(ms))>> >>)>>,
                   <<"payment", PyDict(<<
                        <<"type", PyStr("fixed")>>,
                        <<"totalAmount", PyNum("50")>>,
                        <<"escrowRequired", PyBool("true")>> >>)>> >>)

\* the keyword arguments of submit_milestone, with nonce n (the dash of the
\* message is U+2014, written here as its JSON escape)
SubmitKwargs(n) ==
    PyDict(<< <<"did", AGENT_DID>>, <<"passphrase", PASSPHRASE>>,
              <<"nonce", PyNum(ToString(n))>>,
              <<"deliverables", PyList(<< <<"0", PyStr("cleaned-data.csv")>> >>)>>,
              <<"message", PyStr("Data cleaning complete \\u2014 1,234 rows processed.")>> >>)

\* the keyword arguments of reputation.record, with nonce n
RecordKwargs(n) ==
    PyDict(<< <<"did", AGENT_DID>>, <<"passphrase", PASSPHRASE>>,
              <<"nonce", PyNum(ToString(n))>>, <<"target", AGENT_DID>>,
              <<"dimension", PyStr("quality")>>, <<"score", PyNum("5")>>,
              <<"ref", DictGet(agent.contract, "contractId", PyNone)>> >>)

\* an example script has constructed its client with NODE_URL; async_agent.py
\* is inside its `async with` block
AgentStarted ==
    /\ hpc = "idle"
    /\ req = NoRequest
    /\ resp = NoResponse
    /\ outcome = NoOutcome
    /\ sent = 0
    /\ calls = 0
    /\ wcall = NoWrapperCall
    /\ twin = NoTwin
    /\ variant = "sync"
    /\ wpc = "start"
    /\ now = 0
    /\ t0 = 0
    /\ timeout = 0
    /\ interval = 0
    /\ deadline = 0
    /\ fetches = 0
    /\ sleeps = 0
    /\ status = NoOutcome
    /\ wres = NoOutcome
    /\ hist = NoHist
    /\ \E e \in {"agent", "async_agent"} :
          /\ agent = [NoAgent EXCEPT !.example = e, !.pc = "start"]
          /\ base_url = IF e = "agent" THEN NewBaseUrl(NODE_URL) ELSE AsyncNewBaseUrl(NODE_URL)
          /\ client = IF e = "agent"
                      THEN NewClient(NoApiKey, NoExtraHeaders)
                      ELSE [NewClient(NoApiKey, NoExtraHeaders) EXCEPT
                               !.cls = "AsyncClawTokenClient",
                               !.headers = AsyncNewHeaders(NoApiKey, NoExtraHeaders),
                               !.scope = "inside"]

\* agent.py, step 1: client.node.get_status() leaves for the node
AgentGetStatus ==
    /\ agent.example = "agent"
    /\ agent.pc = "start"
    /\ LET rq == AgentGet(<<"/", "api", "/", "node", "/", "status">>, NoParams) IN
       /\ req' = rq
       /\ agent' = [agent EXCEPT !.pc = "status_wait", !.sent = Append(@, rq)]
    /\ hpc' = "inflight"
    /\ resp' = NoResponse
    /\ outcome' = NoOutcome
    /\ sent' = sent + 1
    /\ calls' = calls + 1
    /\ UNCHANGED <<base_url, client, wcall, twin>>
    /\ UNCHANGED syncVarsButAgent

\* the node answers get_status(): status['network'], status['blockHeight']
\* and status['synced'] are read for the log line. Every exception of this
\* step is caught and ends the run with sys.exit(1)
AgentStatusEnd(r) ==
    /\ agent.pc = "status_wait"
    /\ \E o \in {AgentOutcome(r)} :
       \E fail \in {AgentFailure(o, {"network", "blockHeight", "synced"})} :
          /\ resp' = r
          /\ outcome' = o
          /\ agent' =
               IF fail # ""
               THEN [agent EXCEPT !.pc = "exited", !.error = fail,
                                  !.status = IF o.kind = "return" THEN o.value ELSE @]
               ELSE [agent EXCEPT !.status = o.value,
                                  !.pc = IF Truthy(DictGet(o.value, "synced", PyNone))
                                         THEN "identity" ELSE "sync_start"]
    /\ hpc' = "done"
    /\ UNCHANGED <<base_url, req, sent, calls, client, wcall, twin>>
    /\ UNCHANGED syncVarsButAgent

\* `if not status["synced"]`: client.node.wait_for_sync(interval=2.0,
\* timeout=60.0) computes its deadline and issues its first get_status()
AgentWaitForSync ==
    /\ agent.pc = "sync_start"
    /\ t0' = now
    /\ interval' = SYNC_INTERVAL
    /\ timeout' = SYNC_TIMEOUT
    /\ deadline' = Deadline(now, SYNC_TIMEOUT)
    /\ fetches' = fetches + 1
    /\ wpc' = "fetching"
    /\ LET rq == AgentGet(<<"/", "api", "/", "node", "/", "status">>, NoParams) IN
       /\ req' = rq
       /\ agent' = [agent EXCEPT !.pc = "sync_fetching", !.sent = Append(@, rq)]
    /\ hpc' = "inflight"
    /\ resp' = NoResponse
    /\ outcome' = NoOutcome
    /\ sent' = sent + 1
    /\ calls' = calls + 1
    /\ UNCHANGED <<base_url, client, wcall, twin>>
    /\ UNCHANGED <<variant, now, sleeps, status, wres, hist>>

\* a get_status() of the wait ends after d seconds with response r, and the
\* loop body runs up to its return, raise or sleep; what wait_for_sync raises
\* is caught by step 1 of main and ends the run with sys.exit(1)
AgentSyncFetchEnd(d, r) ==
    /\ agent.pc = "sync_fetching"
    /\ \E st \in {HttpOutcome(r)} :
       \E step \in {LoopStep(st, now + d, deadline)} :
       \E res \in {CASE step = "propagate" -> st
                     [] step = "attribute_error" -> AttributeError
                     [] step = "return" -> Returned(st.value)
                     [] step = "timeout" ->
                          [TimeoutError(SYNC_TIMEOUT) EXCEPT
                             !.message = PyStr("Node did not sync within 60.0s")]
                     [] OTHER -> wres} :
          /\ now' = now + d
          /\ status' = st
          /\ wres' = res
          /\ wpc' = IF step = "sleep" THEN "sleeping" ELSE "done"
          /\ sleeps' = IF step = "sleep" THEN sleeps + 1 ELSE sleeps
          /\ resp' = r
          /\ outcome' = st
          /\ agent' = CASE step = "sleep" -> [agent EXCEPT !.pc = "sync_sleeping"]
                        [] step = "return" -> [agent EXCEPT !.pc = "identity"]
                        [] OTHER -> [agent EXCEPT !.pc = "exited",
                                                  !.error = AgentFailure(res, {})]
    /\ hpc' = "done"
    /\ UNCHANGED <<base_url, req, sent, calls, client, wcall, twin>>
    /\ UNCHANGED <<variant, t0, timeout, interval, deadline, fetches, hist>>

\* time.sleep(interval) of the wait ends (over: the seconds it overran) and
\* the next get_status() is issued
AgentSyncSleepEnd(over) ==
    /\ agent.pc = "sync_sleeping"
    /\ fetches < MaxFetches
    /\ now' = now + SleepSeconds(interval, timeout) + over
    /\ fetches' = fetches + 1
    /\ wpc' = "fetching"
    /\ LET rq == AgentGet(<<"/", "api", "/", "node", "/", "status">>, NoParams) IN
       /\ req' = rq
       /\ agent' = [agent EXCEPT !.pc = "sync_fetching", !.sent = Append(@, rq)]
    /\ hpc' = "inflight"
    /\ resp' = NoResponse
    /\ outcome' = NoOutcome
    /\ sent' = sent + 1
    /\ calls' = calls + 1
    /\ UNCHANGED <<base_url, client, wcall, twin>>
    /\ UNCHANGED <<variant, t0, timeout, interval, deadline, sleeps, status, wres, hist>>

\* agent.py, step 2: client.identity.get(AGENT_DID) leaves for the node
AgentIdentityGet ==
    /\ agent.pc = "identity"
    /\ LET rq == AgentGet(<<"/", "api", "/", "identity", "/">> \o Quote(Chars(AGENT_DID.s)), NoParams) IN
       /\ req' = rq
       /\ agent' = [agent EXCEPT !.pc = "identity_wait", !.sent = Append(@, rq)]
    /\ hpc' = "inflight"
    /\ resp' = NoResponse
    /\ outcome' = NoOutcome
    /\ sent' = sent + 1
    /\ calls' = calls + 1
    /\ UNCHANGED <<base_url, client, wcall, twin>>
    /\ UNCHANGED syncVarsButAgent

\* the node answers identity.get: identity['publicKey'] is read
AgentIdentityEnd(r) ==
    /\ agent.pc = "identity_wait"
    /\ \E o \in {AgentOutcome(r)} :
       \E fail \in {AgentFailure(o, {"publicKey"})} :
          /\ resp' = r
          /\ outcome' = o
          /\ agent' = [agent EXCEPT !.pc = IF fail = "" THEN "balance" ELSE "failed",
                                    !.identity = IF o.kind = "return" THEN o.value ELSE @,
                                    !.error = fail]
    /\ hpc' = "done"
    /\ UNCHANGED <<base_url, req, sent, calls, client, wcall, twin>>
    /\ UNCHANGED syncVarsButAgent

\* agent.py, step 3: client.wallet.get_balance() leaves for the node; with
\* neither did nor address the params dict is empty and None is passed
AgentGetBalance ==
    /\ agent.pc = "balance"
    /\ LET rq == AgentGet(<<"/", "api", "/", "wallet", "/", "balance">>, NoParams) IN
       /\ req' = rq
       /\ agent' = [agent EXCEPT !.pc = "balance_wait", !.sent = Append(@, rq)]
    /\ hpc' = "inflight"
    /\ resp' = NoResponse
    /\ outcome' = NoOutcome
    /\ sent' = sent + 1
    /\ calls' = calls + 1
    /\ UNCHANGED <<base_url, client, wcall, twin>>
    /\ UNCHANGED syncVarsButAgent

\* the node answers get_balance: balance['available'] and balance['locked']
\* are read, and balance["available"] < 10 is evaluated (a TypeError unless
\* the value is a number)
AgentBalanceEnd(r) ==
    /\ agent.pc = "balance_wait"
    /\ \E o \in {AgentOutcome(r)} :
       \E fail0 \in {AgentFailure(o, {"available", "locked"})} :
       \E fail \in {IF fail0 = "" /\ DictGet(o.value, "available", PyNone).t \notin {"num", "bool"}
                     THEN "TypeError" ELSE fail0} :
          /\ resp' = r
          /\ outcome' = o
          /\ agent' = [agent EXCEPT !.pc = IF fail = "" THEN "search" ELSE "failed",
                                    !.balance = IF o.kind = "return" THEN o.value ELSE @,
                                    !.error = fail]
    /\ hpc' = "done"
    /\ UNCHANGED <<base_url, req, sent, calls, client, wcall, twin>>
    /\ UNCHANGED syncVarsButAgent

\* async_agent.py: the three coroutines are handed to asyncio.gather, which
\* starts them in the order of its arguments; each runs up to the await of
\* its GET
AgentGather ==
    /\ agent.example = "async_agent"
    /\ agent.pc = "start"
    /\ LET rqs == << AgentGet(<<"/", "api", "/", "node", "/", "status">>, NoParams),
                     AgentGet(<<"/", "api", "/", "identity", "/">>
                                 \o Quote(Chars(AGENT_DID.s)), NoParams),
                     AgentGet(<<"/", "api", "/", "wallet", "/", "balance">>, NoParams) >>
       IN  agent' = [agent EXCEPT
                       !.pc = "gather_wait",
                       !.sent = @ \o rqs,
                       !.tasks = [t \in 1..Gathered |->
                                    [pc |-> "inflight", req |-> rqs[t],
                                     resp |-> NoResponse, outcome |-> NoOutcome]]]
    /\ sent' = sent + Gathered
    /\ calls' = calls + Gathered
    /\ UNCHANGED <<base_url, hpc, req, resp, outcome, client, wcall, twin>>
    /\ UNCHANGED syncVarsButAgent

\* the answer to gathered call t arrives (or its connection fails); an
\* answer that arrives after main has left the gather is handed to its call
\* all the same, as long as the call was not cancelled
AgentTaskRespond(t, r) ==
    /\ agent.tasks # <<>>
    /\ agent.tasks[t].pc = "inflight"
    /\ agent' = [agent EXCEPT !.tasks[t].pc = "answered", !.tasks[t].resp = r]
    /\ UNCHANGED httpVars
    /\ UNCHANGED syncVarsButAgent

\* the event loop resumes gathered call t after its await:
\* _handle_error(resp) and `return resp.json()`; the first call that raises
\* is the one whose exception gather hands to main; a cancelled call is
\* resumed with asyncio.CancelledError instead
AgentTaskResume(t) ==
    /\ agent.tasks # <<>>
    /\ agent.tasks[t].pc \in {"answered", "cancelling"}
    /\ \E o \in {IF agent.tasks[t].pc = "cancelling" THEN CancelledError
                 ELSE AsyncHttpOutcome(agent.tasks[t].resp)} :
       agent' = [agent EXCEPT !.tasks[t].pc = "done",
                              !.tasks[t].outcome = o,
                              !.raised = IF @ = 0 /\ o.kind # "return" THEN t ELSE @]
    /\ UNCHANGED httpVars
    /\ UNCHANGED syncVarsButAgent

\* main is resumed with the exception of a gathered call: a ClawNetError is
\* caught and answered with sys.exit(1), anything else is not caught. Either
\* way an exception leaves the `async with` block and __aexit__ awaits
\* aclose(): the client is closed, and main is suspended while the
\* connections of the calls still in flight are dropped
AgentGatherRaises ==
    /\ agent.pc = "gather_wait"
    /\ agent.raised # 0
    /\ agent' = [agent EXCEPT !.pc = "closing",
                              !.error = AgentFailure(agent.tasks[agent.raised].outcome, {})]
    /\ client' = ClientAclose(client)
    /\ UNCHANGED <<base_url, hpc, req, resp, outcome, sent, calls, wcall, twin>>
    /\ UNCHANGED syncVarsButAgent

\* the client is closed and gathered call t has no answer yet: its await is
\* completed with httpx.ReadError, its connection was dropped
AgentTaskReadError(t) ==
    /\ client.closed
    /\ agent.tasks # <<>>
    /\ agent.tasks[t].pc = "inflight"
    /\ agent' = [agent EXCEPT !.tasks[t].pc = "answered", !.tasks[t].resp = NetworkFailure]
    /\ UNCHANGED httpVars
    /\ UNCHANGED syncVarsButAgent

\* aclose() has returned, __aexit__ returns None and the exception ends
\* main; the event loop goes on
AgentMainEnds ==
    /\ agent.pc = "closing"
    /\ \E o \in {agent.tasks[agent.raised].outcome} :
       \E pc2 \in {IF o.kind = "node_error" THEN "exited" ELSE "failed"} :
          /\ agent' = [agent EXCEPT !.pc = pc2]
          /\ client' = AgentClientAt(pc2, AgentException(o, IF pc2 = "exited" THEN "SystemExit"
                                                            ELSE agent.error))
    /\ UNCHANGED <<base_url, hpc, req, resp, outcome, sent, calls, wcall, twin>>
    /\ UNCHANGED syncVarsButAgent

\* asyncio.run(main()), main having ended: every gathered call that has not
\* ended is cancelled, whether it has no answer yet or has one and was not
\* resumed since; an answer not yet handed to its coroutine is dropped
AgentRunCancels ==
    /\ agent.example = "async_agent"
    /\ agent.pc \in {"rested", "failed", "exited", "complete"}
    /\ agent.loop = "running"
    /\ agent' = [agent EXCEPT
                   !.loop = "over",
                   !.tasks = [t \in 1..Gathered |->
                                IF agent.tasks[t].pc \in {"inflight", "answered"}
                                THEN [agent.tasks[t] EXCEPT !.pc = "cancelling",
                                                            !.resp = NoResponse]
                                ELSE agent.tasks[t]]]
    /\ UNCHANGED httpVars
    /\ UNCHANGED syncVarsButAgent

\* every gathered call has returned: status, identity, balance = the results;
\* status['network'], status['blockHeight'], status['synced'],
\* identity['publicKey'] and balance['available'] are read, outside the try
AgentGatherEnd ==
    /\ agent.pc = "gather_wait"
    /\ \A t \in 1..Gathered : agent.tasks[t].pc = "done" /\ agent.tasks[t].outcome.kind = "return"
    /\ LET f1 == AgentFailure(agent.tasks[1].outcome, {"network", "blockHeight", "synced"})
           f2 == AgentFailure(agent.tasks[2].outcome, {"publicKey"})
           f3 == AgentFailure(agent.tasks[3].outcome, {"available"})
           fail == IF f1 # "" THEN f1 ELSE IF f2 # "" THEN f2 ELSE f3
           pc2 == IF fail = "" THEN "search" ELSE "failed"
       IN  /\ agent' = [agent EXCEPT !.pc = pc2,
                                     !.status = agent.tasks[1].outcome.value,
                                     !.identity = agent.tasks[2].outcome.value,
                                     !.balance = agent.tasks[3].outcome.value,
                                     !.error = fail]
           /\ client' = AgentClientAt(pc2, AgentException(NoOutcome, fail))
    /\ UNCHANGED <<base_url, hpc, req, resp, outcome, sent, calls, wcall, twin>>
    /\ UNCHANGED syncVarsButAgent

\* client.markets.search(q="data-analysis", type="task", limit=5) leaves for
\* the node
AgentSearch ==
    /\ agent.pc = "search"
    /\ LET params == ParamDict(<< << <<"q">>, PStr(<<"data-analysis">>) >>,
                                  << <<"type">>, PStr(<<"task">>) >>,
                                  << <<"limit">>, PInt(<<"5">>) >> >>)
           rq == AgentGet(<<"/", "api", "/", "markets", "/", "search">>, params)
       IN  /\ req' = rq
           /\ agent' = [agent EXCEPT !.pc = "search_wait", !.sent = Append(@, rq)]
    /\ hpc' = "inflight"
    /\ resp' = NoResponse
    /\ outcome' = NoOutcome
    /\ sent' = sent + 1
    /\ calls' = calls + 1
    /\ UNCHANGED <<base_url, client, wcall, twin>>
    /\ UNCHANGED syncVarsButAgent

\* the node answers the search: results['total'] is read; main returns if
\* results["total"] == 0; task = results["items"][0]; task['id'] is read
AgentSearchEnd(r) ==
    /\ agent.pc = "search_wait"
    /\ \E o \in {AgentOutcome(r)} :
       \E fail0 \in {AgentFailure(o, {"total"})} :
       \E items \in {DictGet(o.value, "items", PyNone)} :
       \E fail \in {IF fail0 # "" THEN fail0
                     ELSE IF DictGet(o.value, "total", PyNone) \in {PyNum("0"), PyBool("false")} THEN ""
                     ELSE IF ~DictHas(o.value, "items") THEN "KeyError"
                     ELSE IF items.t = "obj" THEN "KeyError"
                     ELSE IF items.t = "str" /\ items.s = "" THEN "IndexError"
                     ELSE IF items.t # "arr" THEN "TypeError"
                     ELSE IF Len(items.f) = 0 THEN "IndexError"
                     ELSE IF ~IsDict(items.f[1][2]) THEN "TypeError"
                     ELSE IF ~DictHas(items.f[1][2], "id") THEN "KeyError"
                     ELSE ""} :
       \E pc2 \in {IF fail # "" THEN "failed"
                    ELSE IF DictGet(o.value, "total", PyNone) \in {PyNum("0"), PyBool("false")} THEN "rested"
                    ELSE "bid"} :
          /\ resp' = r
          /\ outcome' = o
          /\ agent' = [agent EXCEPT !.pc = pc2,
                                    !.task = IF pc2 = "bid" THEN items.f[1][2] ELSE @,
                                    !.error = fail]
          /\ client' = AgentClientAt(pc2, AgentException(o, fail))
    /\ hpc' = "done"
    /\ UNCHANGED <<base_url, req, sent, calls, wcall, twin>>
    /\ UNCHANGED syncVarsButAgent

\* client.markets.task.bid(task["id"], did=..., passphrase=...,
\* nonce=next_nonce(), amount=50, message=...): the counter is advanced and
\* the POST leaves for the node
AgentBid ==
    /\ agent.pc = "bid"
    /\ LET n == NextNonce(agent.nonce)
           path == <<"/", "api", "/", "markets", "/", "tasks", "/">>
                   \o Quote(Chars(DictGet(agent.task, "id", PyNone).s)) \o <<"/", "bids">>
           rq == AgentPost(path, BidKwargs(n))
       IN  /\ req' = rq
           /\ agent' = [agent EXCEPT !.pc = "bid_wait", !.nonce = n, !.sent = Append(@, rq)]
    /\ hpc' = "inflight"
    /\ resp' = NoResponse
    /\ outcome' = NoOutcome
    /\ sent' = sent + 1
    /\ calls' = calls + 1
    /\ UNCHANGED <<base_url, client, wcall, twin>>
    /\ UNCHANGED syncVarsButAgent

\* the node answers the bid: the result's 'txHash' is read; agent.py then
\* calls time.sleep(3)
AgentBidEnd(r) ==
    /\ agent.pc = "bid_wait"
    /\ \E o \in {AgentOutcome(r)} :
       \E fail \in {AgentFailure(o, {"txHash"})} :
       \E pc2 \in {IF fail # "" THEN "failed"
                    ELSE IF agent.example = "agent" THEN "accept_wait"
                    ELSE "create"} :
          /\ resp' = r
          /\ outcome' = o
          /\ agent' = [agent EXCEPT !.pc = pc2,
                                    !.result = IF o.kind = "return" THEN o.value ELSE @,
                                    !.error = fail]
          /\ client' = AgentClientAt(pc2, AgentException(o, fail))
    /\ hpc' = "done"
    /\ UNCHANGED <<base_url, req, sent, calls, wcall, twin>>
    /\ UNCHANGED syncVarsButAgent

\* agent.py: time.sleep(3) ends (over: the seconds it overran)
AgentSleepEnd(over) ==
    /\ agent.pc = "accept_wait"
    /\ now' = now + ACCEPT_WAIT + over
    /\ agent' = [agent EXCEPT !.pc = "create"]
    /\ UNCHANGED httpVars
    /\ UNCHANGED <<variant, wpc, t0, timeout, interval, deadline, fetches, sleeps, status,
                   wres, hist>>

\* deadline = int(time.time() * 1000) + 7 * 86_400_000 with the clock at
\* ms = <<h, l>>, h * 1000000 + l milliseconds since the epoch;
\* client.contracts.create(did=..., passphrase=..., nonce=next_nonce(),
\* provider=..., terms=..., payment=...[, milestones=...]): the counter is
\* advanced and the POST leaves for the node
AgentCreate(ms) ==
    /\ agent.pc = "create"
    /\ LET n == NextNonce(agent.nonce)
           rq == AgentPost(<<"/", "api", "/", "contracts">>, CreateKwargs(n, ms))
       IN  /\ req' = rq
           /\ agent' = [agent EXCEPT !.pc = "create_wait", !.nonce = n, !.sent = Append(@, rq)]
    /\ hpc' = "inflight"
    /\ resp' = NoResponse
    /\ outcome' = NoOutcome
    /\ sent' = sent + 1
    /\ calls' = calls + 1
    /\ UNCHANGED <<base_url, client, wcall, twin>>
    /\ UNCHANGED syncVarsButAgent

\* the node answers contracts.create: contract['contractId'] is read;
\* async_agent.py ends here
AgentCreateEnd(r) ==
    /\ agent.pc = "create_wait"
    /\ \E o \in {AgentOutcome(r)} :
       \E fail \in {AgentFailure(o, {"contractId"})} :
       \E pc2 \in {IF fail # "" THEN "failed"
                    ELSE IF agent.example = "agent" THEN "submit"
                    ELSE "complete"} :
          /\ resp' = r
          /\ outcome' = o
          /\ agent' = [agent EXCEPT !.pc = pc2,
                                    !.contract = IF o.kind = "return" THEN o.value ELSE @,
                                    !.error = fail]
          /\ client' = AgentClientAt(pc2, AgentException(o, fail))
    /\ hpc' = "done"
    /\ UNCHANGED <<base_url, req, sent, calls, wcall, twin>>
    /\ UNCHANGED syncVarsButAgent

\* agent.py: client.contracts.submit_milestone(contract["contractId"], "ms-1",
\* did=..., passphrase=..., nonce=next_nonce(), deliverables=..., message=...):
\* the counter is advanced and the POST leaves for the node
AgentSubmitMilestone ==
    /\ agent.pc = "submit"
    /\ LET n == NextNonce(agent.nonce)
           path == <<"/", "api", "/", "contracts", "/">>
                   \o Quote(Chars(DictGet(agent.contract, "contractId", PyNone).s))
                   \o <<"/", "milestones", "/">> \o Quote(Chars("ms-1"))
                   \o <<"/", "submit">>
           rq == AgentPost(path, SubmitKwargs(n))
       IN  /\ req' = rq
           /\ agent' = [agent EXCEPT !.pc = "submit_wait", !.nonce = n, !.sent = Append(@, rq)]
    /\ hpc' = "inflight"
    /\ resp' = NoResponse
    /\ outcome' = NoOutcome
    /\ sent' = sent + 1
    /\ calls' = calls + 1
    /\ UNCHANGED <<base_url, client, wcall, twin>>
    /\ UNCHANGED syncVarsButAgent

\* the node answers submit_milestone: ms_result['txHash'] is read
AgentSubmitMilestoneEnd(r) ==
    /\ agent.pc = "submit_wait"
    /\ \E o \in {AgentOutcome(r)} :
       \E fail \in {AgentFailure(o, {"txHash"})} :
          /\ resp' = r
          /\ outcome' = o
          /\ agent' = [agent EXCEPT !.pc = IF fail = "" THEN "record" ELSE "failed",
                                    !.result = IF o.kind = "return" THEN o.value ELSE @,
                                    !.error = fail]
    /\ hpc' = "done"
    /\ UNCHANGED <<base_url, req, sent, calls, client, wcall, twin>>
    /\ UNCHANGED syncVarsButAgent

\* agent.py: client.reputation.record(did=..., passphrase=...,
\* nonce=next_nonce(), target=..., dimension="quality", score=5, ref=...):
\* the counter is advanced and the POST leaves for the node
AgentRecord ==
    /\ agent.pc = "record"
    /\ LET n == NextNonce(agent.nonce)
           rq == AgentPost(<<"/", "api", "/", "reputation", "/", "record">>, RecordKwargs(n))
       IN  /\ req' = rq
           /\ agent' = [agent EXCEPT !.pc = "record_wait", !.nonce = n, !.sent = Append(@, rq)]
    /\ hpc' = "inflight"
    /\ resp' = NoResponse
    /\ outcome' = NoOutcome
    /\ sent' = sent + 1
    /\ calls' = calls + 1
    /\ UNCHANGED <<base_url, client, wcall, twin>>
    /\ UNCHANGED syncVarsButAgent

\* the node answers reputation.record; its result is not looked at, and main
\* reaches its last line
AgentRecordEnd(r) ==
    /\ agent.pc = "record_wait"
    /\ \E o \in {AgentOutcome(r)} :
       \E fail \in {IF o.kind = "return" THEN "" ELSE AgentFailure(o, {})} :
          /\ resp' = r
          /\ outcome' = o
          /\ agent' = [agent EXCEPT !.pc = IF fail = "" THEN "complete" ELSE "failed",
                                    !.error = fail]
    /\ hpc' = "done"
    /\ UNCHANGED <<base_url, req, sent, calls, client, wcall, twin>>
    /\ UNCHANGED syncVarsButAgent

\* a blocking and a non-blocking client constructed with the base URL b as the
\* caller wrote it; b is kept among the observations
BaseConstructed ==
    /\ hpc = "idle"
    /\ req = NoRequest
    /\ resp = NoResponse
    /\ outcome = NoOutcome
    /\ sent = 0
    /\ calls = 0
    /\ wcall = NoWrapperCall
    /\ client = NewClient(NoApiKey, NoExtraHeaders)
    /\ \E b \in BaseInputs :
          /\ base_url = NewBaseUrl(b)
          /\ twin = [NoTwin EXCEPT !.pc = "idle",
                                   !.base_url = AsyncNewBaseUrl(b),
                                   !.headers = AsyncNewHeaders(NoApiKey, NoExtraHeaders)]
          /\ hist = [NoHist EXCEPT !.base = b]
    /\ variant = "sync"
    /\ wpc = "start"
    /\ now = 0
    /\ t0 = 0
    /\ timeout = 0
    /\ interval = 0
    /\ deadline = 0
    /\ fetches = 0
    /\ sleeps = 0
    /\ status = NoOutcome
    /\ wres = NoOutcome
    /\ agent = NoAgent

----------------------------------------------------------------------------
(* Specifications *)

NextHttp ==
    \/ \E p \in Paths, q \in ParamMaps : Get(p, q)
    \/ \E p \in Paths, b \in JsonBodies : Post(p, b)
    \/ \E p \in Paths, b \in JsonBodies : Put(p, b)
    \/ \E p \in Paths, q \in ParamMaps : Delete(p, q)
    \/ \E r \in Responses : Complete(r)
    \/ Return

\* the transport core, the sync-wait helper at rest
InitHttp == HttpConstructed /\ SyncIdle

SpecHttp == InitHttp /\ [][NextHttp]_vars

NextClient ==
    \/ \E p \in ClientPaths, q \in ClientParams : Get(p, q)
    \/ \E p \in ClientPaths, b \in ClientBodies : Post(p, b)
    \/ \E p \in ClientPaths, b \in ClientBodies : Put(p, b)
    \/ \E p \in ClientPaths, q \in ClientParams : Delete(p, q)
    \/ \E i \in Identifiers : IdentityGet(i)
    \/ \E i \in Identifiers, k \in Kwargs : ReleaseEscrow(i, k)
    \/ \E k \in Kwargs : InfoPublish(k)
    \/ \E i \in Identifiers, k \in Kwargs : InfoRemove(i, k)
    \/ \E i \in Identifiers, k \in Kwargs : TaskRemove(i, k)
    \/ \E i \in Identifiers, k \in Kwargs : CapabilityRemove(i, k)
    \/ \E i \in Identifiers, j \in Identifiers, k \in Kwargs : SubmitMilestone(i, j, k)
    \/ \E r \in ClientResponses : Complete(r)
    \/ Return
    \/ Enter
    \/ \E how \in {"normal", "return", "exception"} : Exit(how)
    \/ Close

\* a configured client used through the resource wrappers, inside a
\* with-block or not
InitClient == ClientConstructed /\ SyncIdle

SpecClient == InitClient /\ [][NextClient]_vars

NextSync ==
    \/ \E iv \in 0..MaxInterval, to \in 0..MaxTimeout : WaitForSync(iv, to)
    \/ \E d \in 0..MaxFetchDur, r \in StatusResponses : FetchEnd(d, r)
    \/ \E over \in 0..MaxOversleep : SleepEnd(over)

\* the sync-wait helper, no other call on the client
InitSync == SyncNotCalled /\ HttpIdle

SpecSync == InitSync /\ [][NextSync]_vars

\* wait_for_sync on a clock that advances: every get_status() takes at least
\* one tick of time.monotonic()
NextSyncLive ==
    \/ \E iv \in 0..MaxInterval, to \in 0..MaxTimeout : WaitForSync(iv, to)
    \/ \E d \in 1..MaxFetchDur, r \in StatusResponses : FetchEnd(d, r)
    \/ \E over \in 0..MaxOversleep : SleepEnd(over)

\* every get_status() that was issued completes and every sleep that was
\* begun ends: the transport and the scheduler are assumed to answer
SpecSyncLive ==
    /\ InitSync
    /\ [][NextSyncLive]_vars
    /\ WF_vars(\E d \in 1..MaxFetchDur, r \in StatusResponses : FetchEnd(d, r))
    /\ WF_vars(\E over \in 0..MaxOversleep : SleepEnd(over))

\* wait_for_sync whose awaiting task may be cancelled
NextCancel ==
    \/ \E iv \in 0..MaxInterval, to \in 0..MaxTimeout : WaitForSync(iv, to)
    \/ \E d \in 0..MaxFetchDur, r \in StatusResponses : FetchEnd(d, r)
    \/ \E over \in 0..MaxOversleep : SleepEnd(over)
    \/ \E after \in 0..MaxFetchDur : Cancel(after)

SpecCancel == InitSync /\ [][NextCancel]_vars

\* the two clients, constructed from one base URL, making the same calls
NextBase ==
    \/ \E p \in Paths, q \in TwinParams : Get(p, q)
    \/ \E p \in Paths, b \in ClientBodies : Post(p, b)
    \/ \E p \in Paths, b \in ClientBodies : Put(p, b)
    \/ \E p \in Paths, q \in TwinParams : Delete(p, q)
    \/ \E r \in ClientResponses : Complete(r)
    \/ AsyncGet
    \/ AsyncPost
    \/ AsyncPut
    \/ AsyncDelete
    \/ AsyncComplete
    \/ TwinReturn

SpecBase == BaseConstructed /\ [][NextBase]_vars

\* any number of calls up to MaxTasks, started and answered in any order
NextConc ==
    \/ \E t \in 1..MaxTasks, p \in ConcPaths, q \in ConcParams : TaskGet(t, p, q)
    \/ \E t \in 1..MaxTasks, p \in ConcPaths, b \in ClientBodies : TaskPost(t, p, b)
    \/ \E t \in 1..MaxTasks, p \in ConcPaths, b \in ClientBodies : TaskPut(t, p, b)
    \/ \E t \in 1..MaxTasks, p \in ConcPaths, q \in ConcParams : TaskDelete(t, p, q)
    \/ \E t \in 1..MaxTasks, r \in ConcResponses : TaskRespond(t, r)
    \/ \E t \in 1..MaxTasks : TaskResume(t)
    \/ GatherRaises
    \/ GatherReturns
    \/ \E t \in 1..MaxTasks : TaskReadError(t)
    \/ MainEnds
    \/ RunCancels

SpecConc == ConcConstructed /\ [][NextConc]_vars

\* one run of an example, whatever the node answers
NextAgent ==
    \/ AgentGetStatus
    \/ \E r \in StatusAnswers : AgentStatusEnd(r)
    \/ AgentWaitForSync
    \/ \E d \in {0, 30}, r \in StatusResponses : AgentSyncFetchEnd(d, r)
    \/ \E over \in 0..MaxOversleep : AgentSyncSleepEnd(over)
    \/ AgentIdentityGet
    \/ \E r \in IdentityAnswers : AgentIdentityEnd(r)
    \/ AgentGetBalance
    \/ \E r \in BalanceAnswers : AgentBalanceEnd(r)
    \/ AgentGather
    \/ \E t \in 1..Gathered : \E r \in (CASE t = 1 -> StatusAnswers
                                           [] t = 2 -> IdentityAnswers
                                           [] OTHER -> BalanceAnswers) : AgentTaskRespond(t, r)
    \/ \E t \in 1..Gathered : AgentTaskResume(t)
    \/ AgentGatherRaises
    \/ \E t \in 1..Gathered : AgentTaskReadError(t)
    \/ AgentMainEnds
    \/ AgentRunCancels
    \/ AgentGatherEnd
    \/ AgentSearch
    \/ \E r \in SearchResponses : AgentSearchEnd(r)
    \/ AgentBid
    \/ \E r \in AgentResponses : AgentBidEnd(r)
    \/ \E over \in 0..MaxOversleep : AgentSleepEnd(over)
    \/ \E ms \in {<<1793361, 600000>>, <<1793400, 199999>>} : AgentCreate(ms)
    \/ \E r \in AgentResponses : AgentCreateEnd(r)
    \/ AgentSubmitMilestone
    \/ \E r \in AgentResponses : AgentSubmitMilestoneEnd(r)
    \/ AgentRecord
    \/ \E r \in AgentResponses : AgentRecordEnd(r)

SpecAgent == AgentStarted /\ [][NextAgent]_vars

NextTwin ==
    \/ \E p \in ClientPaths, q \in TwinParams : wpc = "start" /\ Get(p, q)
    \/ \E p \in ClientPaths, b \in JsonBodies : wpc = "start" /\ Post(p, b)
    \/ \E p \in ClientPaths, b \in JsonBodies : wpc = "start" /\ Put(p, b)
    \/ \E p \in ClientPaths, q \in TwinParams : wpc = "start" /\ Delete(p, q)
    \/ \E r \in Responses : Complete(r)
    \/ AsyncGet
    \/ AsyncPost
    \/ AsyncPut
    \/ AsyncDelete
    \/ AsyncComplete
    \/ TwinReturn
    \/ \E iv \in 0..MaxInterval, to \in 0..MaxTimeout : calls = 0 /\ WaitForSync(iv, to)
    \/ \E d \in 0..MaxFetchDur, r \in StatusResponses : TwinCaughtUp /\ FetchEnd(d, r)
    \/ \E over \in 0..MaxOversleep : SleepEnd(over)
    \/ AsyncWaitForSync
    \/ AsyncFetchEnd
    \/ AsyncSleepEnd

\* the two variants side by side: a program uses the pair either for plain
\* calls or for one wait_for_sync
InitTwin == BothConstructed /\ SyncIdle

SpecTwin == InitTwin /\ [][NextTwin]_vars

----------------------------------------------------------------------------
(* Properties of the transport core, checked under SpecHttp *)

\* the call in progress has received an HTTP response and has ended
Answered == hpc = "done" /\ ~resp.net

\* C6: every call of get, post, put or delete issues exactly one HTTP
\* request, whatever its outcome: the requests sent are as many as the
\* calls made, while a call is in flight and after it has ended.
C6_OneRequestPerCall ==
    /\ sent = calls
    /\ hpc = "done" => outcome.kind \in {"return", "node_error", "decode_error", "network_error"}

\* C6 witness: the second call ended with a network failure, two requests
\* sent in all
C6_Witness ==
    /\ hpc = "done"
    /\ outcome.kind = "network_error"
    /\ calls = 2
    /\ sent = 2

\* C7: a 2xx response with a JSON body makes the call return exactly the
\* decoded value of that body (object, array or scalar, 201 included).
C7_SuccessReturnsDecoded ==
    (Answered /\ IsSuccess(resp.status) /\ JsonLoads(resp.text) # JInvalid) =>
        outcome = Returned(JsonLoads(resp.text))

\* C7 witness: a POST answered 201 with {"contractId": "ct-1", "txHash":
\* "tx-1"} returned exactly these two members
C7_Witness ==
    /\ Answered
    /\ req.method = "POST"
    /\ resp.status = 201
    /\ outcome.kind = "return"
    /\ outcome.value =
          PyDict(<< <<"contractId", PyStr("ct-1")>>, <<"txHash", PyStr("tx-1")>> >>)

\* the decoded body is an object whose "error" is an object with the
\* members named in keys
ErrorObjectWith(body, keys) ==
    /\ IsDict(body)
    /\ DictHas(body, "error")
    /\ IsDict(DictGet(body, "error", PyNone))
    /\ \A k \in keys : DictHas(DictGet(body, "error", PyNone), k)

\* C8: a non-2xx response whose body is {"error": {"code": C, "message": M}}
\* raises a node error with the HTTP status, code C and message M.
C8_StructuredError ==
    (Answered /\ ~IsSuccess(resp.status)
       /\ ErrorObjectWith(JsonLoads(resp.text), {"code", "message"})) =>
        LET err == DictGet(JsonLoads(resp.text), "error", PyNone) IN
        /\ outcome.kind = "node_error"
        /\ outcome.status = resp.status
        /\ outcome.code = DictGet(err, "code", PyNone)
        /\ outcome.message = DictGet(err, "message", PyNone)

\* C8 witness: 404 {"error": {"code": "NOT_FOUND", "message": "Resource not
\* found"}} raised the node error with these three values
C8_Witness ==
    /\ Answered
    /\ resp.status = 404
    /\ outcome.kind = "node_error"
    /\ outcome.status = 404
    /\ outcome.code = PyStr("NOT_FOUND")
    /\ outcome.message = PyStr("Resource not found")

\* C9: a non-2xx response whose body is not a JSON object holding an "error"
\* object with a "message" raises a node error whose message is the raw
\* response text and whose code is unset.
C9_FallbackRawText ==
    (Answered /\ ~IsSuccess(resp.status)
       /\ ~ErrorObjectWith(JsonLoads(resp.text), {"message"})) =>
        /\ outcome.kind = "node_error"
        /\ outcome.message = PyStr(resp.text)
        /\ outcome.code = PyNone

\* the part of C9 the code keeps: the message is the raw response text
C9_FallbackMessage ==
    (Answered /\ ~IsSuccess(resp.status)
       /\ ~ErrorObjectWith(JsonLoads(resp.text), {"message"})) =>
        /\ outcome.kind = "node_error"
        /\ outcome.message = PyStr(resp.text)

\* Reading a URL back: the text after the first "?", cut at "&", each part's
\* name being what precedes its first "="
RECURSIVE IndexOf(_, _)
IndexOf(s, c) ==
    IF s = <<>> THEN 0
    ELSE IF Head(s) = c THEN 1
    ELSE LET i == IndexOf(Tail(s), c) IN IF i = 0 THEN 0 ELSE i + 1

RECURSIVE Split(_, _)
Split(s, c) ==
    LET i == IndexOf(s, c) IN
    IF i = 0 THEN <<s>>
    ELSE <<SubSeq(s, 1, i - 1)>> \o Split(SubSeq(s, i + 1, Len(s)), c)

HasQuery(url) == IndexOf(url, "?") # 0

QueryString(url) == SubSeq(url, IndexOf(url, "?") + 1, Len(url))

NameOf(part) ==
    LET i == IndexOf(part, "=") IN
    IF i = 0 THEN part ELSE SubSeq(part, 1, i - 1)

QueryNames(url) ==
    IF ~HasQuery(url) THEN {}
    ELSE LET parts == Split(QueryString(url), "&") IN
         {NameOf(parts[i]) : i \in 1..Len(parts)}

\* a get or delete call has built its URL
QueryCall == hpc # "idle" /\ req.method \in {"GET", "DELETE"}

AllNone(params) ==
    \A i \in 1..Len(params.items) : params.items[i][2].kind = "none"

\* C10 as stated: a key whose value is None never appears in the query
\* string, every key with a non-None value appears, and an empty or all-None
\* mapping gives a URL without "?".
C10_Original ==
    QueryCall =>
        /\ \A i \in 1..Len(req.params.items) :
              LET k == req.params.items[i][1]
                  v == req.params.items[i][2]
              IN  (v.kind = "none") = (QuotePlus(k) \notin QueryNames(req.url))
        /\ AllNone(req.params) => ~HasQuery(req.url)

\* C10 amended: a key whose value is None never appears in the query string,
\* every key whose value is neither None nor an empty sequence (a list of
\* no element) appears, and an empty or all-None mapping gives a URL
\* without "?".
C10_NoneKeysDropped ==
    QueryCall =>
        /\ \A i \in 1..Len(req.params.items) :
              LET k == req.params.items[i][1]
                  v == req.params.items[i][2]
              IN  /\ v.kind = "none" => QuotePlus(k) \notin QueryNames(req.url)
                  /\ (v.kind # "none" /\ v.items # <<>>) =>
                         QuotePlus(k) \in QueryNames(req.url)
        /\ AllNone(req.params) => ~HasQuery(req.url)

\* C10 witness: GET /w/b with {a: "d:x", b: None} asked for h/w/b?a=d%3Ax
C10_Witness ==
    /\ QueryCall
    /\ req.method = "GET"
    /\ req.params = ParamDict(<< <<<<"a">>, PStr(<<"d", ":", "x">>)>>, <<<<"b">>, PNone>> >>)
    /\ req.url = <<"h", "/", "w", "/", "b", "?", "a", "=", "d", "%", "3", "A", "x">>

\* C13: a call whose request failed at the network level (no HTTP response
\* at all) has ended by raising the transport failure: not the node error,
\* not a return value, and the request was not sent a second time.
C13_NetworkFailurePropagates ==
    (hpc = "done" /\ resp.net) =>
        /\ outcome = NetworkError
        /\ outcome.kind \notin {"return", "node_error"}
        /\ sent = calls

C13_Witness ==
    /\ hpc = "done"
    /\ resp = NetworkFailure
    /\ req.method = "PUT"
    /\ outcome.kind = "network_error"
    /\ calls = 2
    /\ sent = 2

\* the body of the response is empty or is not JSON
UndecodableBody(r) == r.text \in {"", "Bad Gateway", "{\"error\": "}

\* C14: a call answered with a 2xx status and a body that is empty or not
\* valid JSON has ended by raising the decode failure: it returned nothing
\* and did not raise the node error.
C14_UndecodableSuccessRaises ==
    (Answered /\ IsSuccess(resp.status) /\ UndecodableBody(resp)) =>
        /\ outcome = DecodeError
        /\ outcome.kind \notin {"return", "node_error"}

C14_Witness ==
    /\ Answered
    /\ resp.status = 201
    /\ resp.text = ""
    /\ req.method = "DELETE"
    /\ outcome.kind = "decode_error"

\* C29: a call answered with a status outside 200-299 (1xx and 3xx
\* included) has raised the node error with that status, whatever the body
\* is, valid JSON or not: it has returned no value, and the body was not
\* handed back decoded.
C29_NonSuccessAlwaysRaises ==
    (Answered /\ ~(200 <= resp.status /\ resp.status <= 299)) =>
        /\ outcome.kind = "node_error"
        /\ outcome.status = resp.status
        /\ outcome.value = PyNone

C29_Witness ==
    /\ Answered
    /\ resp.status = 301
    /\ resp.text = "{\"ok\": true}"
    /\ req.method = "POST"
    /\ outcome.kind = "node_error"
    /\ outcome.status = 301

\* the "name=value" parts after the "?" of a URL (none when it has no "?"
\* or nothing follows it)
QueryPairs(url) ==
    IF ~HasQuery(url) \/ QueryString(url) = <<>> THEN <<>>
    ELSE Split(QueryString(url), "&")

\* how many parts of the query string carry the name k
PairsNamed(url, k) ==
    Cardinality({i \in 1..Len(QueryPairs(url)) : NameOf(QueryPairs(url)[i]) = QuotePlus(k)})

\* C30: the URL of a get or delete call has a "?" exactly when at least one
\* name=value pair follows it, so it never ends in a bare "?", also when the
\* values left after dropping None are empty sequences; and a sequence
\* value of n elements gives n pairs under its name.
C30_QueryMarkIffPairs ==
    QueryCall =>
        /\ HasQuery(req.url) <=> Len(QueryPairs(req.url)) >= 1
        /\ req.url[Len(req.url)] # "?"
        /\ \A i \in 1..Len(req.params.items) :
              LET k == req.params.items[i][1]
                  v == req.params.items[i][2]
              IN  v.kind = "seq" => PairsNamed(req.url, k) = Len(v.items)

----------------------------------------------------------------------------
(* Properties of the configured client and of the resource wrappers, checked
   under SpecClient *)

\* a request has been issued by the call in progress
Issued == hpc \in {"inflight", "done"} /\ req # NoRequest

\* the client was constructed with a (non-empty) bearer credential
HasCredential == ~client.api_key.none /\ client.api_key.v # ""

\* C11: every request issued through a client that was constructed with a
\* bearer credential K carries the header Authorization: Bearer K, whatever
\* extra headers the client was constructed with.
C11_BearerOnEveryRequest ==
    (Issued /\ HasCredential) =>
        /\ DictHasKey(req.headers, "Authorization")
        /\ DictValue(req.headers, "Authorization") = "Bearer " \o client.api_key.v

\* the extra headers the caller supplied at construction (none: <<>>)
Supplied == IF client.extra.none THEN <<>> ELSE client.extra.v

\* a header name as HTTP compares it: without regard to the case of its
\* letters
FieldName(n) ==
    CASE n \in {"Content-Type", "content-type", "CONTENT-TYPE"} -> "content-type"
      [] n \in {"Authorization", "authorization"} -> "authorization"
      [] n \in {"X-Trace", "x-trace"} -> "x-trace"
      [] OTHER -> n

\* the entries of a header dict that HTTP reads as the field `name`
Fields(d, name) == {i \in 1..Len(d) : FieldName(d[i][1]) = FieldName(name)}

\* C12: every request carries each extra header the caller supplied at
\* construction, with the caller's value, merged into the defaults; a
\* caller-supplied Content-Type replaces the default application/json (the
\* request has one Content-Type field, the caller's); and when no
\* Content-Type is supplied the request carries Content-Type:
\* application/json.
C12_CallerContentTypeReplaces ==
    Issued =>
        /\ \A i \in 1..Len(Supplied) :
              /\ DictHasKey(req.headers, Supplied[i][1])
              /\ DictValue(req.headers, Supplied[i][1]) = Supplied[i][2]
        /\ Cardinality(Fields(req.headers, "Content-Type")) = 1
        /\ \A i \in Fields(req.headers, "Content-Type") :
              req.headers[i][2] =
                 IF Fields(Supplied, "Content-Type") # {}
                 THEN Supplied[CHOOSE j \in Fields(Supplied, "Content-Type") : TRUE][2]
                 ELSE "application/json"

\* C15: a client that was used as a context manager and whose block has
\* been left, by reaching its end, by a return or by an exception, has its
\* pool closed; and when the block was left by an exception, that exception
\* has gone on to the caller of the block.
C15_ScopeExitCloses ==
    client.scope = "exited" =>
        /\ client.closed
        /\ client.exitBy \in {"normal", "return", "exception"}
        /\ client.exitBy = "exception" =>
              client.propagated.kind \in {"node_error", "decode_error", "network_error",
                                           "type_error"}
        /\ client.exitBy # "exception" => client.propagated = NoOutcome

C15_Witness ==
    /\ client.scope = "exited"
    /\ client.cls = "AsyncClawTokenClient"
    /\ client.exitBy = "exception"
    /\ client.propagated.kind = "node_error"
    /\ client.propagated.status = 404
    /\ client.closed

\* the fields of the common envelope: actor identifier, secret, sequence number
EnvelopeFields == {"did", "passphrase", "nonce"}

\* C16: every state-changing wrapper call (one that ends in POST, PUT or
\* DELETE) transmits in the JSON body of its request each envelope field the
\* caller supplied, the listing-removal calls of the three markets included.
C16_EnvelopeInBody ==
    (Issued /\ wcall.name # "" /\ wcall.method \in {"POST", "PUT", "DELETE"}) =>
        \A f \in EnvelopeFields :
            DictHas(wcall.kwargs, f) =>
                /\ IsDict(req.body)
                /\ DictHas(req.body, f)
                /\ DictGet(req.body, f, PyNone) = DictGet(wcall.kwargs, f, PyNone)

\* urllib.parse.unquote on the escapes the model's texts contain
RECURSIVE Unquote(_)
Unquote(s) ==
    IF s = <<>> THEN <<>>
    ELSE IF Head(s) = "%" /\ Len(s) >= 3
    THEN LET h == <<s[2], s[3]>>
             c == CASE h = <<"3", "A">> -> ":"
                    [] h = <<"2", "F">> -> "/"
                    [] h = <<"3", "F">> -> "?"
                    [] h = <<"2", "6">> -> "&"
                    [] h = <<"3", "D">> -> "="
                    [] h = <<"2", "5">> -> "%"
                    [] h = <<"2", "0">> -> " "
                    [] OTHER -> "?"
         IN  <<c>> \o Unquote(SubSeq(s, 4, Len(s)))
    ELSE <<Head(s)>> \o Unquote(Tail(s))

\* the route of each wrapper: how many "/"-separated parts its URL has (the
\* base URL being the first) and which of them are identifiers
RouteParts(name) ==
    CASE name = "identity.get" -> 4
      [] name = "wallet.release_escrow" -> 6
      [] name = "markets.info.publish" -> 4
      [] name = "contracts.submit_milestone" -> 7
      [] OTHER -> 5
RouteSlots(name) ==
    CASE name = "identity.get" -> <<4>>
      [] name = "wallet.release_escrow" -> <<5>>
      [] name = "markets.info.publish" -> <<>>
      [] name = "contracts.submit_milestone" -> <<4, 6>>
      [] OTHER -> <<5>>

\* C18: in the URL of every wrapper call each identifier fills exactly the
\* one path part of its route, whatever characters it contains: the URL has
\* the parts of the route and no more, it has no query string and no "&",
\* the part of an identifier has none of "/", ":", "?", "&" in it and
\* decoding it once gives the identifier back (it was encoded once, not
\* twice), and the URL sent is the base URL followed by the path as built.
C18_IdentifiersEncodedOnce ==
    (Issued /\ wcall.name # "") =>
        LET parts == Split(req.url, "/")
            slots == RouteSlots(wcall.name)
        IN  /\ Len(parts) = RouteParts(wcall.name)
            /\ ~HasQuery(req.url)
            /\ IndexOf(req.url, "&") = 0
            /\ Len(wcall.ids) = Len(slots)
            /\ \A k \in 1..Len(slots) :
                  /\ Unquote(parts[slots[k]]) = wcall.ids[k]
                  /\ \A c \in {"/", ":", "?", "&", " "} : IndexOf(parts[slots[k]], c) = 0
            /\ req.url = base_url \o req.path

C18_Witness ==
    /\ Issued
    /\ wcall.name = "contracts.submit_milestone"
    /\ wcall.ids = << <<"a", "/", "b">>, <<"q", "?", "k", "&", "v">> >>
    /\ req.url = <<"h", "/", "api", "/", "contracts", "/", "a", "%", "2", "F", "b", "/",
                   "milestones", "/", "q", "%", "3", "F", "k", "%", "2", "6", "v", "/",
                   "submit">>

----------------------------------------------------------------------------
(* The two variants compared, checked under SpecTwin *)

\* C17: the non-blocking variant, called with the arguments of the blocking
\* one and answered with the same responses, issues the same requests and
\* ends the same way. For get, post, put and delete: the request of the
\* async call is the request of the blocking call, it is answered once, and
\* both calls end with the same outcome (the same value returned, or the
\* same failure with the same status, code and message). For wait_for_sync:
\* every fetch of the async helper ends with the outcome of the blocking
\* fetch of the same rank, the async helper ends exactly when the blocking
\* one does, with the same result, after as many fetches and sleeps and at
\* the same clock.
C17_VariantsAgree ==
    /\ twin.pc \in {"inflight", "done"} =>
          /\ twin.req = req
          /\ twin.sent = sent
          /\ twin.calls = calls
    /\ (hpc = "done" /\ twin.pc = "done") =>
          /\ twin.resp = resp
          /\ twin.outcome = outcome
    /\ (twin.done = hist.done /\ hist.done >= 1) =>
          /\ twin.status = status
          /\ twin.wpc = "done" <=> wpc = "done"
          /\ twin.sleeps = sleeps
    /\ (wpc = "done" /\ twin.wpc = "done") =>
          /\ twin.wres = wres
          /\ twin.fetches = fetches
          /\ twin.sleeps = sleeps
          /\ twin.now = now
          /\ twin.deadline = deadline

C17_Witness ==
    /\ wpc = "done"
    /\ twin.wpc = "done"
    /\ twin.wres.kind = "timeout"
    /\ twin.fetches = 3
    /\ twin.sleeps = 2
    /\ twin.now = now

----------------------------------------------------------------------------
(* Properties of wait_for_sync, checked under SpecSync *)

\* the decoded status st reports synced / is a status that does not
ReportsSynced(st) ==
    st.kind = "return" /\ IsDict(st.value) /\ Truthy(DictGet(st.value, "synced", PyNone))
ReportsNotSynced(st) ==
    st.kind = "return" /\ IsDict(st.value) /\ ~Truthy(DictGet(st.value, "synced", PyNone))

\* C1: when the first status fetch reports synced, wait_for_sync (either
\* variant) has returned that very status after one fetch: no second fetch
\* is ever issued and no sleep is ever begun.
C1_FirstSyncedReturnsAtOnce ==
    (hist.done >= 1 /\ ReportsSynced(hist.first)) =>
        /\ wpc = "done"
        /\ wres = Returned(hist.first.value)
        /\ fetches = 1
        /\ sleeps = 0

\* C1 witness: the non-blocking variant returned a first synced status
\* fetched when the deadline had already passed
C1_Witness ==
    /\ variant = "async"
    /\ hist.done = 1
    /\ ReportsSynced(hist.first)
    /\ now >= deadline
    /\ wres.kind = "return"

\* C2: the timeout failure is never raised while the clock is before the
\* deadline computed at call start (call time + timeout).
C2_NoTimeoutBeforeDeadline ==
    wres.kind = "timeout" => now >= t0 + timeout

\* C2 witness: the timeout failure raised exactly at the deadline, after
\* at least one sleep, by a call begun when the clock was not zero
C2_Witness ==
    /\ wres.kind = "timeout"
    /\ t0 > 0
    /\ timeout > 0
    /\ sleeps >= 1
    /\ now = t0 + timeout

\* C3 as stated: the timeout failure is raised no later than
\* timeout + interval after the call began, whatever the fetches last.
C3_Original ==
    wres.kind = "timeout" => now <= t0 + timeout + interval

\* C3 amended: the timeout failure is raised no later than timeout + interval
\* after the call began, plus the duration of the last status fetch and the
\* time the last sleep overran its interval.
C3_TimeoutWithinIntervalPlusFetch ==
    wres.kind = "timeout" =>
        now <= t0 + timeout + interval + hist.fetchDur + hist.over

\* C3 witness: a timeout failure raised later than timeout + interval,
\* after a sleep
C3_Witness ==
    /\ wres.kind = "timeout"
    /\ sleeps >= 1
    /\ now > t0 + timeout + interval

\* C4 as stated: when timeout or more has elapsed at the moment a status
\* fetch completes, wait_for_sync does not return a status, whatever the
\* status fetched.
C4_Original ==
    (hist.done >= 1 /\ status.kind = "return" /\ hist.fetchEnd - t0 >= timeout) =>
        wres.kind # "return"

\* C4 amended: when timeout or more has elapsed at the moment a status fetch
\* completes with a status that does not report synced, wait_for_sync raises
\* the timeout failure instead of sleeping and fetching again; a status
\* that reports synced is returned even then.
C4_TimeoutUnlessSynced ==
    (hist.done >= 1 /\ hist.fetchEnd - t0 >= timeout) =>
        /\ ReportsNotSynced(status) =>
              (wpc = "done" /\ wres = TimeoutError(timeout))
        /\ ReportsSynced(status) =>
              (wpc = "done" /\ wres = Returned(status.value))

\* C4 witness: the timeout failure raised on a not-synced status fetched
\* exactly when timeout had elapsed, after a sleep
C4_Witness ==
    /\ hist.done >= 2
    /\ ReportsNotSynced(status)
    /\ hist.fetchEnd - t0 = timeout
    /\ wres.kind = "timeout"

\* C5: the timeout failure is raised only by the deadline check that follows
\* a completed status fetch: at least one fetch has been issued and has
\* ended, at the very time of the failure, also for a timeout of zero or
\* one smaller than the interval.
C5_FetchBeforeTimeout ==
    wres.kind = "timeout" =>
        /\ fetches >= 1
        /\ hist.done = fetches
        /\ hist.fetchEnd = now
        /\ ReportsNotSynced(status)

\* C5 witness: timeout zero, smaller than the interval: one fetch, then the
\* timeout failure
C5_Witness ==
    /\ wres.kind = "timeout"
    /\ timeout = 0
    /\ interval > timeout
    /\ fetches = 1
    /\ hist.done = 1

\* the last status fetch ended in a failure of the transport core
FetchFailed == hist.done >= 1 /\ status.kind \in {"node_error", "decode_error", "network_error"}

\* C19: once a status fetch has failed (node error, decode failure, network
\* failure), wait_for_sync has ended with that same failure: no fetch was
\* begun after it, no sleep was begun after it, and the failure is not the
\* timeout. Another attempt (a sleep, or a fetch after the first) follows
\* only a fetched status that reports not synced.
C19_FetchFailureEndsWait ==
    /\ FetchFailed =>
          /\ wpc = "done"
          /\ wres = status
          /\ wres.kind # "timeout"
          /\ fetches = hist.done
          /\ sleeps = hist.done - 1
    /\ (hist.done >= 1 /\ wpc \in {"sleeping", "fetching"}) => ReportsNotSynced(status)

C19_Witness ==
    /\ FetchFailed
    /\ status.kind = "network_error"
    /\ hist.done = 2
    /\ now < deadline
    /\ wpc = "done"
    /\ wres.kind = "network_error"

\* C20: waits and fetches alternate. Before the first fetch there is no
\* wait; a wait is begun only after a fetch that reported not synced and
\* ended before the deadline; the fetch after a wait starts interval seconds
\* (plus what the sleep overran) after the fetch before it ended; and once
\* wait_for_sync has ended the waits are one fewer than the fetches.
C20_OneWaitBetweenFetches ==
    /\ wpc = "start" => (fetches = 0 /\ sleeps = 0)
    /\ wpc = "fetching" =>
          /\ sleeps = fetches - 1
          /\ hist.done = fetches - 1
          /\ hist.done >= 1 => now = hist.fetchEnd + interval + hist.over
    /\ wpc = "sleeping" =>
          /\ sleeps = fetches
          /\ hist.done = fetches
          /\ ReportsNotSynced(status)
          /\ hist.fetchEnd < deadline
    /\ wpc = "done" =>
          /\ fetches >= 1
          /\ sleeps = fetches - 1
          /\ hist.done = fetches

C20_Witness ==
    /\ wpc = "done"
    /\ wres.kind = "timeout"
    /\ fetches = 3
    /\ sleeps = 2
    /\ interval = 1

\* C26: when wait_for_sync has ended because its wait expired (the last
\* fetch gave a status that does not report synced), what it raised is the
\* timeout failure, a kind other than the node error, and its message
\* carries the timeout the call was given.
C26_TimeoutKindAndValue ==
    (wpc = "done" /\ ReportsNotSynced(status)) =>
        /\ wres.kind = "timeout"
        /\ wres.kind # "node_error"
        /\ wres.message = PyStr("Node did not sync within " \o ToString(timeout) \o "s")

C26_Witness ==
    /\ wpc = "done"
    /\ ReportsNotSynced(status)
    /\ timeout = 2
    /\ wres.kind = "timeout"
    /\ wres.message = PyStr("Node did not sync within 2s")

\* C27: the timeout failure is raised only on a fetch that has just ended
\* with a status that does not report synced; and whenever the fetch that
\* has just ended reports synced, wait_for_sync has returned the status of
\* that fetch, also when the deadline had passed before the fetch ended.
C27_SyncedWinsOverDeadline ==
    /\ wres.kind = "timeout" =>
          /\ ReportsNotSynced(status)
          /\ hist.fetchEnd = now
    /\ (hist.done >= 1 /\ ReportsSynced(status)) =>
          /\ wpc = "done"
          /\ wres.kind = "return"
          /\ wres.value = status.value

C27_Witness ==
    /\ hist.done = 2
    /\ ReportsSynced(status)
    /\ ~ReportsSynced(hist.first)
    /\ now > deadline
    /\ wres = Returned(status.value)

\* C28: for every timeout and interval, provided each status fetch completes
\* and the clock advances, a wait_for_sync that was called eventually ends,
\* with a status, the timeout or the failure of a fetch.
C28_WaitEventuallyEnds == (wpc \in {"fetching", "sleeping"}) ~> (wpc = "done")

\* a wait with a zero interval that was ended by the timeout at its third fetch
C28_Witness ==
    /\ wpc = "done"
    /\ interval = 0
    /\ timeout = MaxTimeout
    /\ hist.done >= 3
    /\ wres = TimeoutError(timeout)

\* C21: when the task awaiting the non-blocking wait_for_sync is cancelled
\* in its sleep or in a status fetch, the loop stops there: no status fetch
\* is issued after the cancellation, and the call ends with the cancellation,
\* neither with a status nor with the timeout failure.
C21_CancellationStopsLoop ==
    hist.cancelIn # "" =>
        /\ variant = "async"
        /\ wpc = "done"
        /\ wres = CancelledError
        /\ wres.kind \notin {"return", "timeout"}
        /\ fetches = hist.cancelFetches
        /\ hist.done \in {fetches - 1, fetches}
        /\ (hist.cancelIn = "sleeping" => hist.done = fetches)

\* cancelled in the sleep after the second fetch reported not synced
C21_Witness ==
    /\ hist.cancelIn = "sleeping"
    /\ fetches = 2
    /\ hist.done = 2
    /\ ReportsNotSynced(status)
    /\ wres = CancelledError

----------------------------------------------------------------------------
(* Properties of the URL join, checked under SpecBase *)

\* the request rq was built from the base URL raw as the caller wrote it:
\* the stripped base, then the path, then nothing or "?" and the query
JoinedFrom(rq, raw) ==
    LET stripped == RStrip(raw)
        n == Len(stripped)
        m == n + Len(rq.path)
    IN  /\ Len(rq.url) >= m
        /\ SubSeq(rq.url, 1, m) = stripped \o rq.path
        /\ Len(rq.url) > m => rq.url[m + 1] = "?"
        /\ (rq.path[1] = "/" /\ rq.path[2] # "/") =>
               /\ rq.url[n + 1] = "/"
               /\ rq.url[n] # "/"
               /\ rq.url[n + 2] # "/"

\* C23: the URL of each request of either client is the base URL given at
\* construction without its trailing slashes, followed by the caller's path
\* (then "?" and the query string, if any); the base written with one more
\* trailing slash gives the same URL, and for a path that begins with "/"
\* there is exactly one "/" at the join.
C23_BaseJoinedOnce ==
    /\ base_url = RStrip(hist.base)
    /\ twin.base_url = RStrip(hist.base)
    /\ RStrip(hist.base \o <<"/">>) = RStrip(hist.base)
    /\ req.method # "" => JoinedFrom(req, hist.base)
    /\ twin.req.method # "" => JoinedFrom(twin.req, hist.base)

\* a base URL written with a trailing slash, a GET with a query sent by both
\* clients
C23_Witness ==
    /\ hist.base = <<"h", "/">>
    /\ req.method = "GET"
    /\ twin.req.method = "GET"
    /\ req.url = <<"h", "/", "p", "?", "a", "=", "d", "%", "3", "A", "x">>
    /\ twin.req.url = req.url

----------------------------------------------------------------------------
(* The body of POST and PUT, checked under SpecClient *)

\* C24: post and put send as JSON body exactly the mapping the caller
\* passed, no field added, removed, renamed or validated, and the POST of a
\* resource wrapper forwards exactly the keyword arguments it received.
C24_BodyOpaque ==
    (Issued /\ req.method \in {"POST", "PUT"}) =>
        IF wcall.name # ""
        THEN /\ wcall.method = req.method
             /\ req.body = wcall.kwargs
        ELSE req.body \in ClientBodies

\* submit_milestone called with the envelope and one more field
C24_Witness ==
    /\ Issued
    /\ wcall.name = "contracts.submit_milestone"
    /\ req.method = "POST"
    /\ Len(wcall.kwargs.f) = 4
    /\ DictHas(req.body, "reason")
    /\ req.body = wcall.kwargs

----------------------------------------------------------------------------
(* Concurrent calls through one non-blocking client, checked under SpecConc *)

\* C22 as stated: with any number of calls issued concurrently through one
\* non-blocking client and any interleaving of their responses, each call
\* ends with the outcome determined by the response to its own request, and
\* the client's base URL and default headers are in every state the ones set
\* at construction.
C22_Original ==
    /\ twin.base_url = RStrip(hist.base)
    /\ twin.headers = AsyncNewHeaders(client.api_key, client.extra)
    /\ \A t \in 1..MaxTasks :
          twin.tasks[t].pc = "done" =>
             /\ twin.tasks[t].resp # NoResponse
             /\ twin.tasks[t].outcome = AsyncHttpOutcome(twin.tasks[t].resp)

\* C22, amended: with any number of calls issued concurrently through one
\* non-blocking client and any interleaving of their responses, each call
\* that is not cancelled ends with the outcome determined by the response to
\* its own request (the failure of its own connection when the client is
\* closed under it), never by what another call received; a call ends
\* cancelled only after main has ended with the failure of another call; and
\* the client's base URL and default headers are in every state the ones set
\* at construction.
C22_OwnResponseUnlessCancelled ==
    /\ twin.base_url = RStrip(hist.base)
    /\ twin.headers = AsyncNewHeaders(client.api_key, client.extra)
    /\ \A rq \in {twin.tasks[t].req : t \in {u \in 1..MaxTasks : twin.tasks[u].pc # "new"}} :
          /\ rq.headers = twin.headers
          /\ rq.url = BuildUrl(RStrip(hist.base), rq.path, rq.params)
    /\ \A t \in 1..MaxTasks :
          /\ (twin.tasks[t].pc = "done" /\ twin.tasks[t].outcome.kind # "cancelled") =>
                /\ twin.tasks[t].resp # NoResponse
                /\ twin.tasks[t].outcome = AsyncHttpOutcome(twin.tasks[t].resp)
          /\ (twin.tasks[t].pc = "done" /\ twin.tasks[t].outcome.kind = "cancelled") =>
                /\ twin.tasks[t].outcome = CancelledError
                /\ twin.main = "over"
                /\ \E u \in 1..MaxTasks :
                      /\ u # t
                      /\ twin.tasks[u].pc = "done"
                      /\ twin.tasks[u].outcome.kind \notin {"return", "cancelled"}
          /\ twin.tasks[t].pc # "done" => twin.tasks[t].outcome = NoOutcome
          /\ (twin.tasks[t].pc = "done" /\ twin.tasks[t].outcome.kind = "network_error") =>
                twin.tasks[t].resp = NetworkFailure

\* three calls in flight at once: the second is answered first and ends with
\* the error of its own response; the first, answered 200 after that, has
\* returned what its own response held; the third, still unanswered when the
\* failure of the second ended main, has ended cancelled
C22_Witness ==
    /\ twin.tasks[1].pc = "done"
    /\ twin.tasks[1].resp.status = 200
    /\ twin.tasks[1].outcome.kind = "return"
    /\ twin.tasks[2].pc = "done"
    /\ twin.tasks[2].resp.status = 404
    /\ twin.tasks[2].outcome.kind = "node_error"
    /\ twin.tasks[2].outcome.status = 404
    /\ twin.closed
    /\ twin.main = "over"
    /\ twin.tasks[3].pc = "done"
    /\ twin.tasks[3].resp = NoResponse
    /\ twin.tasks[3].outcome = CancelledError

----------------------------------------------------------------------------
(* The sequence numbers of an example run, checked under SpecAgent *)

\* the state-changing requests of the run, in the order they were sent
IsPost(rq) == rq.method = "POST"
AgentPosts == SelectSeq(agent.sent, IsPost)

\* the sequence number state-changing request number i of the run carries
NonceOf(i) == DictGet(AgentPosts[i].body, "nonce", PyNone)

\* C25: in a run of an example agent, next_nonce returns 1, 2, 3, ... : the
\* i-th state-changing request carries the number i, so each carries a
\* number strictly greater than every state-changing request sent before
\* it, and the global counter is the number of such requests sent.
C25_NonceStrictlyIncreasing ==
    /\ agent.nonce = Len(AgentPosts)
    /\ \A i \in 1..Len(AgentPosts) :
          /\ NonceOf(i) = PyNum(ToString(i))
          /\ \A j \in 1..(i - 1) : \E a \in 1..4, b \in 1..4 :
                /\ a < b
                /\ NonceOf(j) = PyNum(ToString(a))
                /\ NonceOf(i) = PyNum(ToString(b))

\* agent.py has run to its end: after the GETs of its first steps, bid,
\* create, submit_milestone and record were sent with 1, 2, 3 and 4
C25_Witness ==
    /\ agent.example = "agent"
    /\ agent.pc = "complete"
    /\ Len(AgentPosts) = 4
    /\ Len(agent.sent) > 4
    /\ NonceOf(1) = PyNum("1")
    /\ NonceOf(4) = PyNum("4")
    /\ AgentPosts[3].url = NODE_URL \o
          <<"/", "api", "/", "contracts", "/", "c", "t", "%", "2", "F", "2",
            "/", "milestones", "/", "m", "s", "-", "1", "/", "submit">>

====
